---- MODULE Spec2Model ----
(***************************************************************************)
(* The NHL tool server (src/nhl/src/nhl/server.py, formatters.py): the     *)
(* tool catalog, the dispatcher handle_call_tool with its one await point  *)
(* (the outbound fetch), and the text normalizers.                         *)
(*                                                                         *)
(* Python values: a str is a TLA+ string, an int an integer, a list a      *)
(* sequence, a dict a function on its keys (a record), None is PyNone.     *)
(* Only string-typed argument values are modelled (the schemas declare     *)
(* every parameter "type": "string").                                      *)
(***************************************************************************)
EXTENDS Integers, Sequences, FiniteSets, TLC

(***************************************************************************)
(* Python value helpers                                                    *)
(***************************************************************************)
PyNone == [pytype |-> "NoneType"]

EmptyDict == <<>>

Has(d, k) == k \in DOMAIN d

\* d.get(k, default) for a key whose value has the type of default
Get(d, k, default) == IF Has(d, k) THEN d[k] ELSE default

\* `d is None` for d a dict or None
FalsyDict_NoneOnly(d) == d = PyNone

\* `not d` for d a dict or None
FalsyDict(d) == d = PyNone \/ DOMAIN d = {}

\* v = d.get(k); `not v` for a string-valued key
FalsyStrKey(d, k) == ~Has(d, k) \/ d[k] = ""

Ch(s, i) == SubSeq(s, i, i)

Digit == {"0", "1", "2", "3", "4", "5", "6", "7", "8", "9"}

DigitVal(c) ==
  CASE c = "0" -> 0 [] c = "1" -> 1 [] c = "2" -> 2 [] c = "3" -> 3
    [] c = "4" -> 4 [] c = "5" -> 5 [] c = "6" -> 6 [] c = "7" -> 7
    [] c = "8" -> 8 [] c = "9" -> 9

\* int() of a string of decimal digits
RECURSIVE ParseInt(_)
ParseInt(s) ==
  IF Len(s) = 0 THEN 0
  ELSE 10 * ParseInt(SubSeq(s, 1, Len(s) - 1)) + DigitVal(Ch(s, Len(s)))

\* f"{n}" for an int n
IntStr(n) == ToString(n)

\* f"{n:d}": the sign only of a negative number
SignedStr_MinusOnly(n) == IF n >= 0 THEN ToString(n) ELSE "-" \o ToString(0 - n)

\* f"{n:+d}"
SignedStr(n) == IF n >= 0 THEN "+" \o ToString(n) ELSE "-" \o ToString(0 - n)

\* f"{b}" for a bool b
BoolStr(b) == IF b THEN "True" ELSE "False"

\* needle in haystack, for strings
Contains(haystack, needle) ==
  \E i \in 1..(Len(haystack) - Len(needle) + 1) :
    SubSeq(haystack, i, i + Len(needle) - 1) = needle

\* the number of (possibly overlapping) occurrences of needle in haystack
Occurrences(haystack, needle) ==
  Cardinality({i \in 1..(Len(haystack) - Len(needle) + 1) :
                 SubSeq(haystack, i, i + Len(needle) - 1) = needle})

(***************************************************************************)
(* datetime.strptime(date, "%Y-%m-%d"): the format compiles to the regex   *)
(*   (?P<Y>\d\d\d\d)-(?P<m>1[0-2]|0[1-9]|[1-9])-                          *)
(*   (?P<d>3[0-1]|[1-2]\d|0[1-9]|[1-9]| [1-9])                            *)
(* matched at the start of the string; unconverted trailing data and a     *)
(* day that the calendar does not have are ValueErrors.                    *)
(***************************************************************************)
\* length matched by the %m group at position i, 0 when it does not match
MatchMonth(s, i) ==
  LET c1 == IF i <= Len(s) THEN Ch(s, i) ELSE ""
      c2 == IF i + 1 <= Len(s) THEN Ch(s, i + 1) ELSE ""
  IN  IF c1 = "1" /\ c2 \in {"0", "1", "2"} THEN 2
      ELSE IF c1 = "0" /\ c2 \in Digit \ {"0"} THEN 2
      ELSE IF c1 \in Digit \ {"0"} THEN 1
      ELSE 0

\* length matched by the %d group at position i, 0 when it does not match
MatchDay(s, i) ==
  LET c1 == IF i <= Len(s) THEN Ch(s, i) ELSE ""
      c2 == IF i + 1 <= Len(s) THEN Ch(s, i + 1) ELSE ""
  IN  IF c1 = "3" /\ c2 \in {"0", "1"} THEN 2
      ELSE IF c1 \in {"1", "2"} /\ c2 \in Digit THEN 2
      ELSE IF c1 = "0" /\ c2 \in Digit \ {"0"} THEN 2
      ELSE IF c1 \in Digit \ {"0"} THEN 1
      ELSE IF c1 = " " /\ c2 \in Digit \ {"0"} THEN 2
      ELSE 0

IsLeap(y) == (y % 4 = 0) /\ ((y % 100 # 0) \/ (y % 400 = 0))

DaysInMonth(y, m) ==
  IF m = 2 THEN (IF IsLeap(y) THEN 29 ELSE 28)
  ELSE IF m \in {4, 6, 9, 11} THEN 30
  ELSE 31

\* the day digits of a matched %d group (int() strips the leading blank)
DayDigits(t) == IF Ch(t, 1) = " " THEN SubSeq(t, 2, Len(t)) ELSE t

\* TRUE when strptime(s, "%Y-%m-%d") returns, FALSE when it raises ValueError
StrptimeOk(s) ==
  /\ Len(s) >= 5
  /\ \A i \in 1..4 : Ch(s, i) \in Digit
  /\ Ch(s, 5) = "-"
  /\ LET ml == MatchMonth(s, 6)
     IN  /\ ml > 0
         /\ Len(s) >= 6 + ml
         /\ Ch(s, 6 + ml) = "-"
         /\ LET ds == 7 + ml
                dl == MatchDay(s, ds)
            IN  /\ dl > 0
                /\ ds + dl - 1 = Len(s)
                /\ LET y == ParseInt(SubSeq(s, 1, 4))
                       m == ParseInt(SubSeq(s, 6, 5 + ml))
                       d == ParseInt(DayDigits(SubSeq(s, ds, ds + dl - 1)))
                   IN  /\ y >= 1
                       /\ d <= DaysInMonth(y, m)

(***************************************************************************)
(* formatters.py                                                           *)
(***************************************************************************)
NHL_TEAM_ABBREVIATIONS ==
  << "ANA", "BOS", "BUF", "CAR", "CBJ", "CGY", "CHI", "COL", "DAL", "DET",
     "EDM", "FLA", "LAK", "MIN", "MTL", "NJD", "NSH", "NYI", "NYR", "OTT",
     "PHI", "PIT", "SEA", "SJS", "STL", "TBL", "TOR", "UTA", "VAN", "VGK",
     "WPG", "WSH" >>

\* a membership test that only asks for three characters
InTeamAbbreviations_LengthOnly(t) == Len(t) = Len(NHL_TEAM_ABBREVIATIONS[1])

\* x in NHL_TEAM_ABBREVIATIONS
InTeamAbbreviations(t) ==
  \E i \in 1..Len(NHL_TEAM_ABBREVIATIONS) : NHL_TEAM_ABBREVIATIONS[i] = t

\* f"{d.get(k, default)}" for an int-valued key with a string default
GetIntStr(d, k, default) == IF Has(d, k) THEN IntStr(d[k]) ELSE default

\* one goal line of format_games
FormatGoal(g) ==
  LET scorer_name == Get(Get(g, "name", EmptyDict), "default", "Unknown Player")
      period_num  == GetIntStr(Get(g, "periodDescriptor", EmptyDict), "number", "N/A")
      period_type == Get(Get(g, "periodDescriptor", EmptyDict), "periodType", "N/A")
      goal_time   == Get(g, "timeInPeriod", "N/A")
      goal_team   == Get(g, "teamAbbrev", "N/A")
      goal_strength == Get(g, "strength", "N/A")
      away_score_during_goal == GetIntStr(g, "awayScore", "N/A")
      home_score_during_goal == GetIntStr(g, "homeScore", "N/A")
  IN  " - " \o scorer_name \o " scored for " \o goal_team \o " in Period "
        \o period_num \o " (" \o period_type \o ") at " \o goal_time
        \o " [" \o goal_strength \o "] (Score at that time: "
        \o away_score_during_goal \o "-" \o home_score_during_goal \o ")\n"

\* goals_str after the first n goals
RECURSIVE GoalsStr(_, _)
GoalsStr(goals, n) ==
  IF n = 0 THEN "" ELSE GoalsStr(goals, n - 1) \o FormatGoal(goals[n])

\* the text one iteration of format_games' loop appends
FormatGame(game) ==
  LET game_id    == GetIntStr(game, "id", "N/A")
      game_state == Get(game, "gameState", "N/A")
      venue      == Get(Get(game, "venue", EmptyDict), "default", "Unknown Venue")
      home_team  == Get(game, "homeTeam", EmptyDict)
      away_team  == Get(game, "awayTeam", EmptyDict)
      home_team_name == Get(Get(home_team, "name", EmptyDict), "default", "Unknown Team")
      away_team_name == Get(Get(away_team, "name", EmptyDict), "default", "Unknown Team")
      home_team_score == GetIntStr(home_team, "score", "N/A")
      away_team_score == GetIntStr(away_team, "score", "N/A")
      home_team_id == GetIntStr(home_team, "id", "N/A")
      away_team_id == GetIntStr(away_team, "id", "N/A")
      home_team_logo == Get(home_team, "logo", "")
      away_team_logo == Get(away_team, "logo", "")
      clock      == Get(game, "clock", EmptyDict)
      time_remaining == Get(clock, "timeRemaining", "N/A")
      period     == GetIntStr(game, "period", "N/A")
      in_intermission == BoolStr(Get(clock, "inIntermission", FALSE))
      game_outcome == Get(game, "gameOutcome", EmptyDict)
      last_period_type == Get(game_outcome, "lastPeriodType", "N/A")
      ot_periods == IntStr(Get(game_outcome, "otPeriods", 0))
      goals      == Get(game, "goals", <<>>)
      goals_str  == GoalsStr(goals, Len(goals))
  IN  "Game ID: " \o game_id \o "\n"
        \o "State: " \o game_state \o "\n"
        \o "Venue: " \o venue \o "\n"
        \o "Home Team: " \o home_team_name \o " (ID: " \o home_team_id
        \o ", Score: " \o home_team_score \o ", Logo: " \o home_team_logo \o ")\n"
        \o "Away Team: " \o away_team_name \o " (ID: " \o away_team_id
        \o ", Score: " \o away_team_score \o ", Logo: " \o away_team_logo \o ")\n"
        \o "Time Remaining: " \o time_remaining \o ", Period: " \o period
        \o ", In Intermission: " \o in_intermission \o "\n"
        \o "Game Outcome: Last Period Type: " \o last_period_type
        \o ", OT Periods: " \o ot_periods \o "\n"
        \o (IF goals_str # "" THEN "Goals:\n" \o goals_str ELSE "")
        \o "\n"

\* the goals of the first n games, in order
RECURSIVE GoalsSoFar(_, _)
GoalsSoFar(games, n) ==
  IF n = 0 THEN <<>> ELSE GoalsSoFar(games, n - 1) \o Get(games[n], "goals", <<>>)

\* games_str of a loop that sets goals_str to "" once, before the first game
RECURSIVE GamesStr_GoalsCarried(_, _)
GamesStr_GoalsCarried(games, n) ==
  IF n = 0 THEN ""
  ELSE GamesStr_GoalsCarried(games, n - 1)
         \o FormatGame([k \in DOMAIN games[n] \cup {"goals"} |->
                          IF k = "goals" THEN GoalsSoFar(games, n) ELSE games[n][k]])

\* games_str after the first n games
RECURSIVE GamesStr(_, _)
GamesStr(games, n) ==
  IF n = 0 THEN "" ELSE GamesStr(games, n - 1) \o FormatGame(games[n])

format_games(games) == GamesStr(games, Len(games))

\* list.reverse()
Reverse(xs) == [i \in 1..Len(xs) |-> xs[Len(xs) + 1 - i]]

\* the sort key of format_standings: (points, goalDifferential)
StandingsKey(row) == <<Get(row, "points", 0), Get(row, "goalDifferential", 0)>>

\* tuple comparison a < b
KeyLess(a, b) == a[1] < b[1] \/ (a[1] = b[1] /\ a[2] < b[2])

\* insert row x into the ascending list s behind every row that is not greater
RECURSIVE InsertAsc(_, _)
InsertAsc(s, x) ==
  IF Len(s) = 0 THEN <<x>>
  ELSE IF KeyLess(StandingsKey(x), StandingsKey(s[Len(s)]))
       THEN Append(InsertAsc(SubSeq(s, 1, Len(s) - 1), x), s[Len(s)])
       ELSE Append(s, x)

\* the stable ascending sort of the first n rows
RECURSIVE SortAsc(_, _)
SortAsc(xs, n) ==
  IF n = 0 THEN <<>> ELSE InsertAsc(SortAsc(xs, n - 1), xs[n])

\* an ascending sort reversed afterwards: sorted(rows, key=...)[::-1]
SortedStandings_ReversedAfter(rows) == Reverse(SortAsc(rows, Len(rows)))

\* sorted(rows, key=..., reverse=True): list.sort reverses the list, sorts it
\* ascending (stable) and reverses the result
SortedStandings(rows) == Reverse(SortAsc(Reverse(rows), Len(rows)))

\* one line of format_standings
FormatStandingsRow(team) ==
  LET team_name == Get(Get(team, "teamCommonName", EmptyDict), "default", "")
      points    == Get(team, "points", 0)
      wins      == Get(team, "wins", 0)
      losses    == Get(team, "losses", 0)
      ot_losses == Get(team, "otLosses", 0)
      goal_diff == Get(team, "goalDifferential", 0)
  IN  team_name \o ": " \o IntStr(points) \o "pts (" \o IntStr(wins) \o "-"
        \o IntStr(losses) \o "-" \o IntStr(ot_losses) \o ") GD: "
        \o SignedStr(goal_diff) \o "\n"

\* standings_str after the first n rows of the sorted list
RECURSIVE StandingsStr(_, _)
StandingsStr(rows, n) ==
  IF n = 0 THEN "" ELSE StandingsStr(rows, n - 1) \o FormatStandingsRow(rows[n])

format_standings(standings) ==
  LET sorted_standings == SortedStandings(Get(standings, "standings", <<>>))
  IN  StandingsStr(sorted_standings, Len(sorted_standings))

\* one player line of format_roster
FormatPlayer(player) ==
  LET first_name == Get(Get(player, "firstName", EmptyDict), "default", "")
      last_name  == Get(Get(player, "lastName", EmptyDict), "default", "")
      number     == GetIntStr(player, "sweaterNumber", "")
  IN  "#" \o number \o " " \o first_name \o " " \o last_name \o "\n"

RECURSIVE PlayersStr(_, _)
PlayersStr(players, n) ==
  IF n = 0 THEN "" ELSE PlayersStr(players, n - 1) \o FormatPlayer(players[n])

\* a format_roster that leaves out the header of a group without players
format_roster_SkipEmpty(roster) ==
  LET forwards   == Get(roster, "forwards", <<>>)
      defensemen == Get(roster, "defensemen", <<>>)
      goalies    == Get(roster, "goalies", <<>>)
  IN  (IF Len(forwards) > 0
         THEN "FORWARDS:\n" \o PlayersStr(forwards, Len(forwards)) ELSE "")
        \o (IF Len(defensemen) > 0
              THEN "\nDEFENSEMEN:\n" \o PlayersStr(defensemen, Len(defensemen)) ELSE "")
        \o (IF Len(goalies) > 0
              THEN "\nGOALIES:\n" \o PlayersStr(goalies, Len(goalies)) ELSE "")

format_roster(roster) ==
  LET forwards   == Get(roster, "forwards", <<>>)
      defensemen == Get(roster, "defensemen", <<>>)
      goalies    == Get(roster, "goalies", <<>>)
  IN  "FORWARDS:\n" \o PlayersStr(forwards, Len(forwards))
        \o "\nDEFENSEMEN:\n" \o PlayersStr(defensemen, Len(defensemen))
        \o "\nGOALIES:\n" \o PlayersStr(goalies, Len(goalies))

\* A dict whose text form str(d) is taken is a list of <<key, value>> items in
\* insertion order; a document of that kind is [items |-> the list].
OrderedDict(items) == [items |-> items]

\* `not d` for d such a dict or None
FalsyOrderedDict(d) == d = PyNone \/ Len(d.items) = 0

\* the items 'k': 'v' of a dict of strings, joined by ", "
RECURSIVE ReprStrItems(_, _)
ReprStrItems(items, n) ==
  IF n = 0 THEN ""
  ELSE ReprStrItems(items, n - 1) \o (IF n > 1 THEN ", " ELSE "")
         \o "'" \o items[n][1] \o "': '" \o items[n][2] \o "'"

\* the items 'k': n of a dict of ints
RECURSIVE ReprIntItems(_, _)
ReprIntItems(items, n) ==
  IF n = 0 THEN ""
  ELSE ReprIntItems(items, n - 1) \o (IF n > 1 THEN ", " ELSE "")
         \o "'" \o items[n][1] \o "': " \o IntStr(items[n][2])

\* format_player_stats returns str(player_data); the code below the return
\* statement is unreachable
format_player_stats(player_data) ==
  "{" \o ReprStrItems(player_data.items, Len(player_data.items)) \o "}"

(***************************************************************************)
(* server.py: the catalog and the dispatcher                               *)
(***************************************************************************)
NHL_API_BASE == "https://api-web.nhle.com/v1"

\* handle_list_tools: name, the schema's properties and its "required" list
\* (a schema without a "required" key requires nothing)
handle_list_tools ==
  << [name |-> "get-nhl-schedule", properties |-> {"date"}, required |-> {"date"}],
     [name |-> "get-nhl-game-play-by-play", properties |-> {"game_id"},
      required |-> {"game_id"}],
     [name |-> "get-nhl-roster", properties |-> {"team_abbreviation"}, required |-> {}],
     [name |-> "get-nhl-player-stats", properties |-> {"player_id"}, required |-> {}] >>

CatalogNames == {handle_list_tools[i].name : i \in 1..Len(handle_list_tools)}

\* the result of an invocation: a text result or a raised exception
Text(t) == [kind |-> "text", exc |-> "", text |-> t]

Raise(exc, msg) == [kind |-> "raise", exc |-> exc, text |-> msg]

NoOutcome == [kind |-> "none", exc |-> "", text |-> ""]

\* the handler suspended at `await make_nhl_request(client, url)`; clock is
\* the value Date.today() returned to it, NoDate when it did not ask
Fetch(url, clock) == [kind |-> "fetch", exc |-> "", text |-> url, clock |-> clock]

NoDate == [year |-> 0, month |-> 0, day |-> 0]

Pad2(n) == IF n < 10 THEN "0" \o IntStr(n) ELSE IntStr(n)

Pad4(n) ==
  IF n < 10 THEN "000" \o IntStr(n)
  ELSE IF n < 100 THEN "00" \o IntStr(n)
  ELSE IF n < 1000 THEN "0" \o IntStr(n)
  ELSE IntStr(n)

\* d.strftime('%Y-%m-%d')
Strftime(d) == Pad4(d.year) \o "-" \o Pad2(d.month) \o "-" \o Pad2(d.day)

\* the season id of the roster URL
\* a season that turns over at the start of September
CurrentSeasonId_FromSeptember(today) ==
  LET season_start_year == IF today.month >= 9 THEN today.year ELSE today.year - 1
  IN  IntStr(season_start_year) \o IntStr(season_start_year + 1)

CurrentSeasonId(today) ==
  LET season_start_year == IF today.month >= 10 THEN today.year ELSE today.year - 1
  IN  IntStr(season_start_year) \o IntStr(season_start_year + 1)

\* make_nhl_request: the collaborator's raw result (a network error, a non-2xx
\* status after redirects, a body that is not JSON, or a JSON value) becomes
\* the JSON value or None; one client.get per call
make_nhl_request(raw) == IF raw.kind = "json" THEN raw.body ELSE PyNone

\* a make_nhl_request that tries again after a failed client.get
RequestsPerFetch_Retry == 1 + 1

\* the number of client.get calls one make_nhl_request makes
RequestsPerFetch == 1

\* handle_call_tool up to its await: the validation of each branch, ending in
\* a raised error or in the request it issues
CallToolBegin(name, arguments, now) ==
  IF name = "get-nhl-schedule" THEN
    IF FalsyDict(arguments) THEN Raise("ValueError", "Missing arguments")
    ELSE IF FalsyStrKey(arguments, "date")
      THEN Raise("ValueError", "Missing state parameter")
    ELSE IF ~StrptimeOk(arguments["date"])
      THEN Raise("ValueError", "Invalid date format. Please use YYYY-MM-DD.")
    ELSE Fetch(NHL_API_BASE \o "/schedule/" \o arguments["date"], NoDate)
  ELSE IF name = "get-nhl-game-play-by-play" THEN
    IF arguments = PyNone
      THEN Raise("AttributeError", "'NoneType' object has no attribute 'get'")
    ELSE LET game_id == IF Has(arguments, "game_id") THEN arguments["game_id"]
                        ELSE "None"
         IN  Fetch(NHL_API_BASE \o "/gamecenter/" \o game_id \o "/play-by-play", NoDate)
  ELSE IF name = "get-nhl-roster" THEN
    IF FalsyDict(arguments) THEN Raise("ValueError", "Missing arguments")
    ELSE IF FalsyStrKey(arguments, "team_abbreviation")
      THEN Raise("ValueError", "Missing team_abbreviation")
    ELSE IF ~InTeamAbbreviations(arguments["team_abbreviation"])
      THEN Raise("ValueError",
                 "Invalid team abbreviation: " \o arguments["team_abbreviation"])
    ELSE Fetch(NHL_API_BASE \o "/roster/" \o arguments["team_abbreviation"] \o "/"
                 \o CurrentSeasonId(now), now)
  ELSE IF name = "get-nhl-schedule-now" THEN
    Fetch(NHL_API_BASE \o "/schedule/now", NoDate)
  ELSE IF name = "get-nhl-standings" THEN
    Fetch(NHL_API_BASE \o "/standings/" \o Strftime(now), now)
  ELSE IF name = "get-nhl-player-stats" THEN
    IF FalsyDict(arguments) THEN Raise("ValueError", "Missing arguments")
    ELSE IF FalsyStrKey(arguments, "player_id")
      THEN Raise("ValueError", "Missing player_id")
    ELSE Fetch(NHL_API_BASE \o "/player/" \o arguments["player_id"] \o "/landing",
               NoDate)
  ELSE Raise("ValueError", "Unknown tool: " \o name)

\* a loop that takes the first day-group that has a date at all
FirstMatch_AnyDate(game_days, date, i) ==
  IF \E k \in i..Len(game_days) : Has(game_days[k], "date")
    THEN CHOOSE k \in i..Len(game_days) :
           /\ Has(game_days[k], "date")
           /\ \A m \in i..(k - 1) : ~Has(game_days[m], "date")
  ELSE 0

\* the index of the first day-group whose date equals the requested date,
\* 0 when the loop over game_days ends without a match
RECURSIVE FirstMatch(_, _, _)
FirstMatch(game_days, date, i) ==
  IF i > Len(game_days) THEN 0
  ELSE IF Get(game_days[i], "date", "") = date THEN i
  ELSE FirstMatch(game_days, date, i + 1)

\* get-nhl-schedule after the fetch
ScheduleResult(date, schedule_data) ==
  IF FalsyDict(schedule_data) THEN Text("Failed to retrieve alerts data")
  ELSE LET game_days == Get(schedule_data, "gameWeek", <<>>)
           i == FirstMatch(game_days, date, 1)
       IN  IF Len(game_days) = 0 THEN Text("No active games for " \o date)
           ELSE IF i > 0 THEN Text(format_games(Get(game_days[i], "games", <<>>)))
           ELSE Text("No active games for " \o date)

\* one play line of the play-by-play text
FormatPlay(i, play) ==
  LET event_type     == Get(play, "typeDescKey", "Unknown")
      time_in_period == Get(play, "timeInPeriod", "N/A")
      details        == Get(play, "details", <<>>)
  IN  "Play " \o IntStr(i) \o ": " \o event_type \o " at " \o time_in_period
        \o ", details: {" \o ReprIntItems(details, Len(details)) \o "}\n"

\* the play lines numbered by enumerate(plays) without its start of 1
RECURSIVE PlaysStr_FromZero(_, _)
PlaysStr_FromZero(plays, n) ==
  IF n = 0 THEN "" ELSE PlaysStr_FromZero(plays, n - 1) \o FormatPlay(n - 1, plays[n])

RECURSIVE PlaysStr(_, _)
PlaysStr(plays, n) ==
  IF n = 0 THEN "" ELSE PlaysStr(plays, n - 1) \o FormatPlay(n, plays[n])

\* get-nhl-game-play-by-play after the fetch: data is used unchecked
PlayByPlayResult(data) ==
  IF data = PyNone
    THEN Raise("AttributeError", "'NoneType' object has no attribute 'get'")
  ELSE LET game_id == IF Has(data, "id") THEN IntStr(data["id"]) ELSE "None"
           away_team_info == Get(data, "awayTeam", EmptyDict)
           home_team_info == Get(data, "homeTeam", EmptyDict)
           away_name  == Get(Get(away_team_info, "commonName", EmptyDict), "default", "Unknown")
           away_score == GetIntStr(away_team_info, "score", "N/A")
           home_name  == Get(Get(home_team_info, "commonName", EmptyDict), "default", "Unknown")
           home_score == GetIntStr(home_team_info, "score", "N/A")
           plays      == Get(data, "plays", <<>>)
       IN  Text("Game ID: " \o game_id \o "\n"
                  \o "Away Team: " \o away_name \o " Score: " \o away_score \o "\n"
                  \o "Home Team: " \o home_name \o " Score: " \o home_score \o "\n"
                  \o "Game State: " \o Get(data, "gameState", "N/A") \o "\n"
                  \o "Period: " \o GetIntStr(data, "displayPeriod", "N/A") \o "\n"
                  \o "All plays of the game:\n"
                  \o PlaysStr(plays, Len(plays)))

\* get-nhl-roster after the fetch
RosterResult(roster_data) ==
  IF FalsyDict(roster_data) THEN Text("Failed to retrieve roster data")
  ELSE Text(format_roster(roster_data))

\* get-nhl-schedule-now after the fetch: the loop compares with the local
\* variable date, which only the get-nhl-schedule branch assigns
ScheduleNowResult(schedule_data) ==
  IF FalsyDict(schedule_data) THEN Text("Failed to retrieve alerts data")
  ELSE LET game_days == Get(schedule_data, "gameWeek", <<>>)
       IN  IF Len(game_days) = 0 THEN Text("No active games")
           ELSE Raise("UnboundLocalError",
                      "cannot access local variable 'date' where it is not associated with a value")

\* a get-nhl-standings branch that uses the fetched value unchecked
StandingsResult_Unchecked(standings_data) ==
  IF standings_data = PyNone
    THEN Raise("AttributeError", "'NoneType' object has no attribute 'get'")
  ELSE Text(format_standings(standings_data))

\* get-nhl-standings after the fetch
StandingsResult(standings_data) ==
  IF FalsyDict(standings_data) THEN Text("Failed to retrieve standings data")
  ELSE Text(format_standings(standings_data))

\* get-nhl-player-stats after the fetch
PlayerStatsResult(player_data) ==
  IF FalsyOrderedDict(player_data) THEN Text("Failed to retrieve player data")
  ELSE Text(format_player_stats(player_data))

\* handle_call_tool from its await on: data is what make_nhl_request returned
CallToolResume(name, arguments, data) ==
  IF name = "get-nhl-schedule" THEN ScheduleResult(arguments["date"], data)
  ELSE IF name = "get-nhl-game-play-by-play" THEN PlayByPlayResult(data)
  ELSE IF name = "get-nhl-roster" THEN RosterResult(data)
  ELSE IF name = "get-nhl-schedule-now" THEN ScheduleNowResult(data)
  ELSE IF name = "get-nhl-standings" THEN StandingsResult(data)
  ELSE PlayerStatsResult(data)

(***************************************************************************)
(* src/sports/src/sports/server.py: the earlier copy of the server, with   *)
(* its formatters in the same file and no play-by-play branch              *)
(***************************************************************************)
sports_TEAM_ABBREVIATIONS ==
  << "ANA", "BOS", "BUF", "CAR", "CBJ", "CGY", "CHI", "COL", "DAL", "DET",
     "EDM", "FLA", "LAK", "MIN", "MTL", "NJD", "NSH", "NYI", "NYR", "OTT",
     "PHI", "PIT", "SEA", "SJS", "STL", "TBL", "TOR", "UTA", "VAN", "VGK",
     "WPG", "WSH" >>

\* x in TEAM_ABBREVIATIONS
sports_InTeamAbbreviations(t) ==
  \E i \in 1..Len(sports_TEAM_ABBREVIATIONS) : sports_TEAM_ABBREVIATIONS[i] = t

\* one goal line of format_games
sports_FormatGoal(g) ==
  LET scorer_name == Get(Get(g, "name", EmptyDict), "default", "Unknown Player")
      period_num  == GetIntStr(Get(g, "periodDescriptor", EmptyDict), "number", "N/A")
      period_type == Get(Get(g, "periodDescriptor", EmptyDict), "periodType", "N/A")
      goal_time   == Get(g, "timeInPeriod", "N/A")
      goal_team   == Get(g, "teamAbbrev", "N/A")
      goal_strength == Get(g, "strength", "N/A")
      away_score_during_goal == GetIntStr(g, "awayScore", "N/A")
      home_score_during_goal == GetIntStr(g, "homeScore", "N/A")
  IN  " - " \o scorer_name \o " scored for " \o goal_team \o " in Period "
        \o period_num \o " (" \o period_type \o ") at " \o goal_time
        \o " [" \o goal_strength \o "] (Score at that time: "
        \o away_score_during_goal \o "-" \o home_score_during_goal \o ")\n"

\* goals_str after the first n goals
RECURSIVE sports_GoalsStr(_, _)
sports_GoalsStr(goals, n) ==
  IF n = 0 THEN "" ELSE sports_GoalsStr(goals, n - 1) \o sports_FormatGoal(goals[n])

\* the text one iteration of format_games' loop appends
sports_FormatGame(game) ==
  LET game_id    == GetIntStr(game, "id", "N/A")
      game_state == Get(game, "gameState", "N/A")
      venue      == Get(Get(game, "venue", EmptyDict), "default", "Unknown Venue")
      home_team  == Get(game, "homeTeam", EmptyDict)
      away_team  == Get(game, "awayTeam", EmptyDict)
      home_team_name == Get(Get(home_team, "name", EmptyDict), "default", "Unknown Team")
      away_team_name == Get(Get(away_team, "name", EmptyDict), "default", "Unknown Team")
      home_team_score == GetIntStr(home_team, "score", "N/A")
      away_team_score == GetIntStr(away_team, "score", "N/A")
      home_team_id == GetIntStr(home_team, "id", "N/A")
      away_team_id == GetIntStr(away_team, "id", "N/A")
      home_team_logo == Get(home_team, "logo", "")
      away_team_logo == Get(away_team, "logo", "")
      clock      == Get(game, "clock", EmptyDict)
      time_remaining == Get(clock, "timeRemaining", "N/A")
      period     == GetIntStr(game, "period", "N/A")
      in_intermission == BoolStr(Get(clock, "inIntermission", FALSE))
      game_outcome == Get(game, "gameOutcome", EmptyDict)
      last_period_type == Get(game_outcome, "lastPeriodType", "N/A")
      ot_periods == IntStr(Get(game_outcome, "otPeriods", 0))
      goals      == Get(game, "goals", <<>>)
      goals_str  == sports_GoalsStr(goals, Len(goals))
  IN  "Game ID: " \o game_id \o "\n"
        \o "State: " \o game_state \o "\n"
        \o "Venue: " \o venue \o "\n"
        \o "Home Team: " \o home_team_name \o " (ID: " \o home_team_id
        \o ", Score: " \o home_team_score \o ", Logo: " \o home_team_logo \o ")\n"
        \o "Away Team: " \o away_team_name \o " (ID: " \o away_team_id
        \o ", Score: " \o away_team_score \o ", Logo: " \o away_team_logo \o ")\n"
        \o "Time Remaining: " \o time_remaining \o ", Period: " \o period
        \o ", In Intermission: " \o in_intermission \o "\n"
        \o "Game Outcome: Last Period Type: " \o last_period_type
        \o ", OT Periods: " \o ot_periods \o "\n"
        \o (IF goals_str # "" THEN "Goals:\n" \o goals_str ELSE "")
        \o "\n"

\* games_str after the first n games
RECURSIVE sports_GamesStr(_, _)
sports_GamesStr(games, n) ==
  IF n = 0 THEN "" ELSE sports_GamesStr(games, n - 1) \o sports_FormatGame(games[n])

sports_format_games(games) == sports_GamesStr(games, Len(games))

\* the sort key of format_standings: (points, goalDifferential)
sports_StandingsKey(row) == <<Get(row, "points", 0), Get(row, "goalDifferential", 0)>>

\* insert row x into the ascending list s behind every row that is not greater
RECURSIVE sports_InsertAsc(_, _)
sports_InsertAsc(s, x) ==
  IF Len(s) = 0 THEN <<x>>
  ELSE IF KeyLess(sports_StandingsKey(x), sports_StandingsKey(s[Len(s)]))
       THEN Append(sports_InsertAsc(SubSeq(s, 1, Len(s) - 1), x), s[Len(s)])
       ELSE Append(s, x)

\* the stable ascending sort of the first n rows
RECURSIVE sports_SortAsc(_, _)
sports_SortAsc(xs, n) ==
  IF n = 0 THEN <<>> ELSE sports_InsertAsc(sports_SortAsc(xs, n - 1), xs[n])

\* sorted(rows, key=..., reverse=True): list.sort reverses the list, sorts it
\* ascending (stable) and reverses the result
sports_SortedStandings(rows) == Reverse(sports_SortAsc(Reverse(rows), Len(rows)))

\* one line of format_standings
sports_FormatStandingsRow(team) ==
  LET team_name == Get(Get(team, "teamCommonName", EmptyDict), "default", "")
      points    == Get(team, "points", 0)
      wins      == Get(team, "wins", 0)
      losses    == Get(team, "losses", 0)
      ot_losses == Get(team, "otLosses", 0)
      goal_diff == Get(team, "goalDifferential", 0)
  IN  team_name \o ": " \o IntStr(points) \o "pts (" \o IntStr(wins) \o "-"
        \o IntStr(losses) \o "-" \o IntStr(ot_losses) \o ") GD: "
        \o SignedStr(goal_diff) \o "\n"

\* standings_str after the first n rows of the sorted list
RECURSIVE sports_StandingsStr(_, _)
sports_StandingsStr(rows, n) ==
  IF n = 0 THEN "" ELSE sports_StandingsStr(rows, n - 1) \o sports_FormatStandingsRow(rows[n])

\* a format_standings that writes the rows in the order of the document
sports_format_standings_Unsorted(standings) ==
  LET rows == Get(standings, "standings", <<>>)
  IN  sports_StandingsStr(rows, Len(rows))

sports_format_standings(standings) ==
  LET sorted_standings == sports_SortedStandings(Get(standings, "standings", <<>>))
  IN  sports_StandingsStr(sorted_standings, Len(sorted_standings))

\* one player line of format_roster
sports_FormatPlayer(player) ==
  LET first_name == Get(Get(player, "firstName", EmptyDict), "default", "")
      last_name  == Get(Get(player, "lastName", EmptyDict), "default", "")
      number     == GetIntStr(player, "sweaterNumber", "")
  IN  "#" \o number \o " " \o first_name \o " " \o last_name \o "\n"

RECURSIVE sports_PlayersStr(_, _)
sports_PlayersStr(players, n) ==
  IF n = 0 THEN "" ELSE sports_PlayersStr(players, n - 1) \o sports_FormatPlayer(players[n])

sports_format_roster(roster) ==
  LET forwards   == Get(roster, "forwards", <<>>)
      defensemen == Get(roster, "defensemen", <<>>)
      goalies    == Get(roster, "goalies", <<>>)
  IN  "FORWARDS:\n" \o sports_PlayersStr(forwards, Len(forwards))
        \o "\nDEFENSEMEN:\n" \o sports_PlayersStr(defensemen, Len(defensemen))
        \o "\nGOALIES:\n" \o sports_PlayersStr(goalies, Len(goalies))

\* format_player_stats returns str(player_data); the code below the return
\* statement is unreachable
sports_format_player_stats(player_data) ==
  "{" \o ReprStrItems(player_data.items, Len(player_data.items)) \o "}"

sports_CurrentSeasonId(today) ==
  LET season_start_year == IF today.month >= 10 THEN today.year ELSE today.year - 1
  IN  IntStr(season_start_year) \o IntStr(season_start_year + 1)

\* make_nhl_request: the collaborator's raw result (a network error, a non-2xx
\* status after redirects, a body that is not JSON, or a JSON value) becomes
\* the JSON value or None; one client.get per call
sports_make_nhl_request(raw) == IF raw.kind = "json" THEN raw.body ELSE PyNone

\* the number of client.get calls one make_nhl_request makes
sports_RequestsPerFetch == 1

\* the index of the first day-group whose date equals the requested date,
\* 0 when the loop over game_days ends without a match
RECURSIVE sports_FirstMatch(_, _, _)
sports_FirstMatch(game_days, date, i) ==
  IF i > Len(game_days) THEN 0
  ELSE IF Get(game_days[i], "date", "") = date THEN i
  ELSE sports_FirstMatch(game_days, date, i + 1)

\* get-nhl-schedule after the fetch
sports_ScheduleResult(date, schedule_data) ==
  IF FalsyDict(schedule_data) THEN Text("Failed to retrieve alerts data")
  ELSE LET game_days == Get(schedule_data, "gameWeek", <<>>)
           i == sports_FirstMatch(game_days, date, 1)
       IN  IF Len(game_days) = 0 THEN Text("No active games for " \o date)
           ELSE IF i > 0 THEN Text(sports_format_games(Get(game_days[i], "games", <<>>)))
           ELSE Text("No active games for " \o date)

\* get-nhl-roster after the fetch
sports_RosterResult(roster_data) ==
  IF FalsyDict(roster_data) THEN Text("Failed to retrieve roster data")
  ELSE Text(sports_format_roster(roster_data))

\* get-nhl-schedule-now after the fetch: the loop compares with the local
\* variable date, which only the get-nhl-schedule branch assigns
sports_ScheduleNowResult(schedule_data) ==
  IF FalsyDict(schedule_data) THEN Text("Failed to retrieve alerts data")
  ELSE LET game_days == Get(schedule_data, "gameWeek", <<>>)
       IN  IF Len(game_days) = 0 THEN Text("No active games")
           ELSE Raise("UnboundLocalError",
                      "cannot access local variable 'date' where it is not associated with a value")

\* get-nhl-standings after the fetch
sports_StandingsResult(standings_data) ==
  IF FalsyDict(standings_data) THEN Text("Failed to retrieve standings data")
  ELSE Text(sports_format_standings(standings_data))

\* get-nhl-player-stats after the fetch
sports_PlayerStatsResult(player_data) ==
  IF FalsyOrderedDict(player_data) THEN Text("Failed to retrieve player data")
  ELSE Text(sports_format_player_stats(player_data))

\* handle_call_tool of the sports server up to its await
sports_CallToolBegin(n, a, now) ==
  IF n = "get-nhl-schedule" THEN
    IF FalsyDict(a) THEN Raise("ValueError", "Missing arguments")
    ELSE IF FalsyStrKey(a, "date")
      THEN Raise("ValueError", "Missing state parameter")
    ELSE IF ~StrptimeOk(a["date"])
      THEN Raise("ValueError", "Invalid date format. Please use YYYY-MM-DD.")
    ELSE Fetch(NHL_API_BASE \o "/schedule/" \o a["date"], NoDate)
  ELSE IF n = "get-nhl-roster" THEN
    IF FalsyDict(a) THEN Raise("ValueError", "Missing arguments")
    ELSE IF FalsyStrKey(a, "team_abbreviation")
      THEN Raise("ValueError", "Missing team_abbreviation")
    ELSE IF ~sports_InTeamAbbreviations(a["team_abbreviation"])
      THEN Raise("ValueError", "Invalid team abbreviation: " \o a["team_abbreviation"])
    ELSE Fetch(NHL_API_BASE \o "/roster/" \o a["team_abbreviation"] \o "/"
                 \o sports_CurrentSeasonId(now), now)
  ELSE IF n = "get-nhl-schedule-now" THEN
    Fetch(NHL_API_BASE \o "/schedule/now", NoDate)
  ELSE IF n = "get-nhl-standings" THEN
    Fetch(NHL_API_BASE \o "/standings/" \o Strftime(now), now)
  ELSE IF n = "get-nhl-player-stats" THEN
    IF FalsyDict(a) THEN Raise("ValueError", "Missing arguments")
    ELSE IF FalsyStrKey(a, "player_id")
      THEN Raise("ValueError", "Missing player_id")
    ELSE Fetch(NHL_API_BASE \o "/player/" \o a["player_id"] \o "/landing", NoDate)
  ELSE Raise("ValueError", "Unknown tool: " \o n)

\* handle_call_tool of the sports server from its await on
sports_CallToolResume(n, a, data) ==
  IF n = "get-nhl-schedule" THEN sports_ScheduleResult(a["date"], data)
  ELSE IF n = "get-nhl-roster" THEN sports_RosterResult(data)
  ELSE IF n = "get-nhl-schedule-now" THEN sports_ScheduleNowResult(data)
  ELSE IF n = "get-nhl-standings" THEN sports_StandingsResult(data)
  ELSE sports_PlayerStatsResult(data)

(***************************************************************************)
(* Bounded inputs                                                          *)
(***************************************************************************)
\* the longest gameWeek list of a schedule document
MaxDays == 2

\* the longest standings list of a standings document
MaxRows == 3

SeqsUpTo(S, n) == UNION {[1..k -> S] : k \in 0..n}

\* the names a host may call: the six the dispatcher routes, the tool whose
\* branch is commented out, and a name of another server
Names ==
  { "get-nhl-schedule", "get-nhl-game-play-by-play", "get-nhl-roster",
    "get-nhl-schedule-now", "get-nhl-standings", "get-nhl-player-stats",
    "get-nhl-team-stats", "hello-world" }

DateValues ==
  { "2024-01-15", "2024-01-17", "2024-1-15", "2024-02-29",
    "2024/01/01", "2024-02-30", "20240115", "15-01-2024", "" }

TeamValues == {"TOR", "EDM", "XXX", "tor", ""}

PlayerIdValues == {"8478402", ""}

GameIdValues == {"2024020451", ""}

\* the argument bags: None, the empty dict, and the dicts of one parameter
ArgBags ==
  {PyNone, EmptyDict}
    \cup {[date |-> d] : d \in DateValues}
    \cup {[team_abbreviation |-> t] : t \in TeamValues}
    \cup {[player_id |-> i] : i \in PlayerIdValues}
    \cup {[game_id |-> g] : g \in GameIdValues}

\* the values Date.today() may return
Todays ==
  { [year |-> 2024, month |-> 9, day |-> 30],
    [year |-> 2024, month |-> 10, day |-> 1],
    [year |-> 2025, month |-> 1, day |-> 5] }

Game1 ==
  [ id |-> 2024020451, gameState |-> "FINAL",
    venue |-> [default |-> "Rogers Place"],
    homeTeam |-> [name |-> [default |-> "Oilers"], id |-> 22, score |-> 3,
                  logo |-> "edm.svg"],
    awayTeam |-> [name |-> [default |-> "Leafs"], id |-> 10, score |-> 2,
                  logo |-> "tor.svg"],
    clock |-> [timeRemaining |-> "00:00", inIntermission |-> FALSE],
    period |-> 3,
    gameOutcome |-> [lastPeriodType |-> "REG", otPeriods |-> 0],
    goals |-> << [name |-> [default |-> "C. McDavid"],
                  periodDescriptor |-> [number |-> 1, periodType |-> "REG"],
                  timeInPeriod |-> "04:12", teamAbbrev |-> "EDM",
                  strength |-> "ev", awayScore |-> 0, homeScore |-> 1],
                 [teamAbbrev |-> "TOR", awayScore |-> 1, homeScore |-> 1] >> ]

Game2 == [id |-> 2024020452, gameState |-> "FUT", awayTeam |-> [id |-> 6]]

GameLists == {<<>>, <<Game1>>, <<Game2>>, <<Game1, Game2>>}

GroupDates == {"2024-01-15", "2024-01-16"}

\* day-groups: dated with games, dated without a games key, undated
DayGroups ==
  {[date |-> d, games |-> gs] : d \in GroupDates, gs \in GameLists}
    \cup {[date |-> d] : d \in GroupDates}
    \cup {[games |-> <<Game1>>]}

ScheduleDocs ==
  {EmptyDict, [nextStartDate |-> "2024-01-22"]}
    \cup {[gameWeek |-> w] : w \in SeqsUpTo(DayGroups, MaxDays)}

StandingsRows ==
  { [teamCommonName |-> [default |-> "Jets"], points |-> 10, goalDifferential |-> 3,
     wins |-> 5, losses |-> 1, otLosses |-> 0],
    [teamCommonName |-> [default |-> "Stars"], points |-> 10, goalDifferential |-> 3],
    [teamCommonName |-> [default |-> "Wild"], points |-> 10, goalDifferential |-> -2],
    [teamCommonName |-> [default |-> "Kings"], points |-> 8, goalDifferential |-> 5],
    [teamCommonName |-> [default |-> "Sharks"], goalDifferential |-> -1],
    [points |-> 8] }

StandingsDocs ==
  {EmptyDict, [wildCardIndicator |-> TRUE]}
    \cup {[standings |-> r] : r \in SeqsUpTo(StandingsRows, MaxRows)}

Player1 ==
  [firstName |-> [default |-> "Auston"], lastName |-> [default |-> "Matthews"],
   sweaterNumber |-> 34]

Player2 == [lastName |-> [default |-> "Woll"]]

RosterDocs ==
  { EmptyDict,
    [forwards |-> <<Player1>>, defensemen |-> <<>>, goalies |-> <<Player2>>],
    [forwards |-> <<Player1, Player2>>],
    [goalies |-> <<Player2, Player1>>, defensemen |-> <<Player1>>] }

\* player documents, as item lists in insertion order
PlayerDocs ==
  { OrderedDict(<<>>),
    OrderedDict(<< <<"position", "C">> >>),
    OrderedDict(<< <<"position", "C">>, <<"shootsCatches", "L">> >>),
    OrderedDict(<< <<"shootsCatches", "L">>, <<"position", "C">> >>) }

Play1 ==
  [typeDescKey |-> "goal", timeInPeriod |-> "04:12",
   details |-> << <<"xCoord", 70>>, <<"yCoord", -5>> >>]

Play2 == [typeDescKey |-> "faceoff"]

PlayByPlayDocs ==
  { EmptyDict,
    [id |-> 2024020451, awayTeam |-> [commonName |-> [default |-> "Leafs"], score |-> 2],
     homeTeam |-> [commonName |-> [default |-> "Oilers"], score |-> 3],
     gameState |-> "FINAL", displayPeriod |-> 3, plays |-> <<Play1, Play2>>],
    [plays |-> <<Play2, Play1, Play2>>],
    [gameState |-> "LIVE"] }

\* the JSON values the endpoint of a tool may answer with
DocsFor(name) ==
  IF name \in {"get-nhl-schedule", "get-nhl-schedule-now"} THEN ScheduleDocs
  ELSE IF name = "get-nhl-standings" THEN StandingsDocs
  ELSE IF name = "get-nhl-roster" THEN RosterDocs
  ELSE IF name = "get-nhl-player-stats" THEN PlayerDocs
  ELSE PlayByPlayDocs

\* what client.get / raise_for_status / response.json() can come to
RawResults(name) ==
  {[kind |-> k, body |-> PyNone] : k \in {"network_error", "http_error", "not_json"}}
    \cup {[kind |-> "json", body |-> d] : d \in DocsFor(name)}

(***************************************************************************)
(* The state machine: each invocation of handle_call_tool is a coroutine   *)
(* that runs to its await, and from the fetch's return to its end.         *)
(***************************************************************************)
Procs == {"p1", "p2"}

\* the invocation slot the sequential host uses
Main == "p1"

VARIABLES pc, name, arguments, url, clock, fetches, response, outcome

vars == <<pc, name, arguments, url, clock, fetches, response, outcome>>

Init ==
  /\ pc = [p \in Procs |-> "idle"]
  /\ name = [p \in Procs |-> ""]
  /\ arguments = [p \in Procs |-> PyNone]
  /\ url = [p \in Procs |-> ""]
  /\ clock = [p \in Procs |-> NoDate]
  /\ fetches = [p \in Procs |-> 0]
  /\ response = [p \in Procs |-> PyNone]
  /\ outcome = [p \in Procs |-> NoOutcome]

\* the host calls handle_call_tool(n, a) with n, a drawn from the given sets,
\* on a day drawn from todays; the handler runs to its first await or to its end
CallFrom(p, names, bags, todays) ==
  /\ pc[p] = "idle"
  /\ \E n \in names, a \in bags, now \in todays :
       LET b == CallToolBegin(n, a, now)
       IN  /\ name' = [name EXCEPT ![p] = n]
           /\ arguments' = [arguments EXCEPT ![p] = a]
           /\ IF b.kind = "fetch"
                THEN /\ pc' = [pc EXCEPT ![p] = "await"]
                     /\ url' = [url EXCEPT ![p] = b.text]
                     /\ clock' = [clock EXCEPT ![p] = b.clock]
                     /\ fetches' = [fetches EXCEPT ![p] = @ + RequestsPerFetch]
                     /\ outcome' = outcome
                ELSE /\ pc' = [pc EXCEPT ![p] = "done"]
                     /\ outcome' = [outcome EXCEPT ![p] = b]
                     /\ UNCHANGED <<url, clock, fetches>>
  /\ UNCHANGED response

Call(p) == CallFrom(p, Names, ArgBags, Todays)

\* a resumption that leaves the fetched document where every invocation sees it
ResumeFrom_SharedResponse(p, raws) ==
  /\ pc[p] = "await"
  /\ \E raw \in raws :
       LET data == make_nhl_request(raw)
       IN  /\ response' = [q \in Procs |-> data]
           /\ outcome' = [outcome EXCEPT ![p] = CallToolResume(name[p], arguments[p], data)]
  /\ pc' = [pc EXCEPT ![p] = "done"]
  /\ UNCHANGED <<name, arguments, url, clock, fetches>>

\* the fetch returns one of the given raw results and the handler runs to its end
ResumeFrom(p, raws) ==
  /\ pc[p] = "await"
  /\ \E raw \in raws :
       LET data == make_nhl_request(raw)
       IN  /\ response' = [response EXCEPT ![p] = data]
           /\ outcome' = [outcome EXCEPT ![p] = CallToolResume(name[p], arguments[p], data)]
  /\ pc' = [pc EXCEPT ![p] = "done"]
  /\ UNCHANGED <<name, arguments, url, clock, fetches>>

Resume(p) == ResumeFrom(p, RawResults(name[p]))

\* the host takes the result; the slot is free for the next invocation
Return(p) ==
  /\ pc[p] = "done"
  /\ pc' = [pc EXCEPT ![p] = "idle"]
  /\ name' = [name EXCEPT ![p] = ""]
  /\ arguments' = [arguments EXCEPT ![p] = PyNone]
  /\ url' = [url EXCEPT ![p] = ""]
  /\ clock' = [clock EXCEPT ![p] = NoDate]
  /\ fetches' = [fetches EXCEPT ![p] = 0]
  /\ response' = [response EXCEPT ![p] = PyNone]
  /\ outcome' = [outcome EXCEPT ![p] = NoOutcome]

Next == Call(Main) \/ Resume(Main) \/ Return(Main)

Spec == Init /\ [][Next]_vars
(***************************************************************************)
(* Properties                                                              *)
(***************************************************************************)
\* an invocation that has started (its handler ran to the await or to its end)
Started(p) == pc[p] \in {"await", "done"}

Done(p) == pc[p] = "done"

\* an invocation whose fetch has returned
Fetched(p) == Done(p) /\ fetches[p] >= 1

\* the arguments get past the checks the branch of the tool makes
ValidationPasses(n, a) ==
  CASE n = "get-nhl-schedule" ->
         a # PyNone /\ Has(a, "date") /\ a["date"] # "" /\ StrptimeOk(a["date"])
    [] n = "get-nhl-game-play-by-play" -> a # PyNone
    [] n = "get-nhl-roster" ->
         /\ a # PyNone /\ Has(a, "team_abbreviation")
         /\ a["team_abbreviation"] \in
              {NHL_TEAM_ABBREVIATIONS[i] : i \in 1..Len(NHL_TEAM_ABBREVIATIONS)}
    [] n \in {"get-nhl-schedule-now", "get-nhl-standings"} -> TRUE
    [] n = "get-nhl-player-stats" ->
         a # PyNone /\ Has(a, "player_id") /\ a["player_id"] # ""
    [] OTHER -> FALSE

\* C1: an invocation whose arguments pass validation performs exactly one
\* fetch, and no invocation, whatever its arguments and whether its fetch
\* succeeds or fails, performs more than one (a failed fetch is not retried).
C1_ExactlyOneFetch ==
  \A p \in Procs :
    /\ fetches[p] <= 1
    /\ (Started(p) /\ ValidationPasses(name[p], arguments[p])) => fetches[p] = 1

\* C1 witness: a valid invocation has ended after its one fetch failed
C1_Witness ==
  \E p \in Procs :
    /\ Done(p) /\ ValidationPasses(name[p], arguments[p])
    /\ fetches[p] = 1 /\ response[p] = PyNone

\* the text is "Failed to retrieve <resource> data" for a non-empty resource
IsFailedToRetrieve(t) ==
  LET pre == "Failed to retrieve "
      suf == " data"
  IN  /\ Len(t) > Len(pre) + Len(suf)
      /\ SubSeq(t, 1, Len(pre)) = pre
      /\ SubSeq(t, Len(t) - Len(suf) + 1, Len(t)) = suf

\* C2: for every tool that fetches, when make_nhl_request returns None the
\* invocation returns a text result carrying a "Failed to retrieve <resource>
\* data" message and does not raise.
C2_FailedFetchIsText ==
  \A p \in Procs :
    (Fetched(p) /\ response[p] = PyNone) =>
      /\ outcome[p].kind = "text"
      /\ IsFailedToRetrieve(outcome[p].text)

\* C3: when the fetch of the standings endpoint fails, get-nhl-standings
\* returns exactly the text "Failed to retrieve standings data" and does not
\* raise.
C3_StandingsFailureText ==
  \A p \in Procs :
    (Fetched(p) /\ name[p] = "get-nhl-standings" /\ response[p] = PyNone) =>
      outcome[p] = Text("Failed to retrieve standings data")

\* C3 witness: a standings invocation has ended after a failed fetch
C3_Witness ==
  \E p \in Procs :
    /\ Fetched(p) /\ name[p] = "get-nhl-standings" /\ response[p] = PyNone
    /\ outcome[p].kind = "text"

\* C4: an invocation whose name is not the name of a tool of the catalog
\* fails with the unknown-tool error and performs no fetch.
C4_UncataloguedNameIsUnknown ==
  \A p \in Procs :
    (Started(p) /\ name[p] \notin CatalogNames) =>
      /\ fetches[p] = 0
      /\ Done(p)
      /\ outcome[p] = Raise("ValueError", "Unknown tool: " \o name[p])

\* the parameters the catalog's schema of tool n declares as required
RequiredOf(n) ==
  UNION {handle_list_tools[i].required :
           i \in {j \in 1..Len(handle_list_tools) : handle_list_tools[j].name = n}}

\* C5: when a parameter that the tool's schema declares required is absent
\* from the arguments (or the arguments are absent altogether), the invocation
\* raises and no fetch is performed.
C5_MissingRequiredNeverFetches ==
  \A p \in Procs :
    (/\ Started(p)
     /\ \E r \in RequiredOf(name[p]) : arguments[p] = PyNone \/ ~Has(arguments[p], r)) =>
      /\ fetches[p] = 0
      /\ outcome[p].kind = "raise"

TeamCodes == {NHL_TEAM_ABBREVIATIONS[i] : i \in 1..Len(NHL_TEAM_ABBREVIATIONS)}

\* a get-nhl-roster invocation that was given a team_abbreviation
RosterWithTeam(p) ==
  /\ Started(p) /\ name[p] = "get-nhl-roster"
  /\ arguments[p] # PyNone /\ Has(arguments[p], "team_abbreviation")

\* C6 as stated: get-nhl-roster with a team_abbreviation outside the 32 codes
\* raises the invalid-value error and makes no fetch.
C6_InvalidTeamRaisesInvalidValue ==
  \A p \in Procs :
    (RosterWithTeam(p) /\ arguments[p]["team_abbreviation"] \notin TeamCodes) =>
      /\ fetches[p] = 0
      /\ outcome[p] = Raise("ValueError", "Invalid team abbreviation: "
                                            \o arguments[p]["team_abbreviation"])

\* C6 amended: there are 32 codes; get-nhl-roster with a non-empty
\* team_abbreviation outside them raises the invalid-value error, with an
\* empty one it raises the missing-argument error, and in both cases it makes
\* no fetch.
C6_InvalidTeamNeverFetches ==
  /\ Cardinality(TeamCodes) = 32
  /\ \A p \in Procs :
       (RosterWithTeam(p) /\ arguments[p]["team_abbreviation"] \notin TeamCodes) =>
         /\ fetches[p] = 0
         /\ outcome[p] =
              IF arguments[p]["team_abbreviation"] = ""
                THEN Raise("ValueError", "Missing team_abbreviation")
                ELSE Raise("ValueError", "Invalid team abbreviation: "
                                           \o arguments[p]["team_abbreviation"])

\* C6 witness: a roster invocation with the code XXX has raised
C6_Witness ==
  \E p \in Procs :
    /\ RosterWithTeam(p) /\ arguments[p]["team_abbreviation"] = "XXX"
    /\ Done(p) /\ outcome[p].kind = "raise" /\ fetches[p] = 0

\* the string is a calendar date written exactly as YYYY-MM-DD
IsIsoDate(s) ==
  /\ Len(s) = 10
  /\ \A i \in {1, 2, 3, 4, 6, 7, 9, 10} : Ch(s, i) \in Digit
  /\ Ch(s, 5) = "-" /\ Ch(s, 8) = "-"
  /\ LET y == ParseInt(SubSeq(s, 1, 4))
         m == ParseInt(SubSeq(s, 6, 7))
         d == ParseInt(SubSeq(s, 9, 10))
     IN  y >= 1 /\ m \in 1..12 /\ d >= 1 /\ d <= DaysInMonth(y, m)

\* C7: get-nhl-schedule with a (non-empty) date that is not written exactly
\* as YYYY-MM-DD raises the invalid-format error and makes no fetch.
C7_MalformedDateNeverFetches ==
  \A p \in Procs :
    (/\ Started(p) /\ name[p] = "get-nhl-schedule"
     /\ arguments[p] # PyNone /\ Has(arguments[p], "date")
     /\ arguments[p]["date"] # "" /\ ~IsIsoDate(arguments[p]["date"])) =>
      /\ fetches[p] = 0
      /\ outcome[p] = Raise("ValueError", "Invalid date format. Please use YYYY-MM-DD.")
\* a get-nhl-schedule invocation whose fetch returned a JSON value
ScheduleFetched(p) ==
  Fetched(p) /\ name[p] = "get-nhl-schedule" /\ response[p] # PyNone

\* the day-groups of the fetched schedule document
GroupsOf(p) == Get(response[p], "gameWeek", <<>>)

\* the indices of the day-groups whose date is the requested date
MatchingGroups(p) ==
  {i \in 1..Len(GroupsOf(p)) :
     Has(GroupsOf(p)[i], "date") /\ GroupsOf(p)[i]["date"] = arguments[p]["date"]}

GamesOfGroup(p, i) == Get(GroupsOf(p)[i], "games", <<>>)

\* the games of xs, one after the other, each rendered once
RECURSIVE Renderings(_)
Renderings(xs) ==
  IF Len(xs) = 0 THEN "" ELSE FormatGame(Head(xs)) \o Renderings(Tail(xs))

\* the text holds the games of day-group i, one rendering per game, and no
\* game that only the day-groups of other dates hold
RendersGroup(p, i) ==
  LET games == GamesOfGroup(p, i)
      t == outcome[p].text
  IN  /\ outcome[p].kind = "text"
      /\ t = Renderings(games)
      /\ Occurrences(t, "Game ID: ") = Len(games)
      /\ \A j \in (1..Len(GroupsOf(p))) \ MatchingGroups(p) :
           \A k \in 1..Len(GamesOfGroup(p, j)) :
             LET g == GamesOfGroup(p, j)[k]
             IN  (\A m \in 1..Len(games) : games[m] # g) =>
                   ~Contains(t, "Game ID: " \o IntStr(g["id"]) \o "\n")

\* C8 as stated: for every valid date and every successfully fetched schedule
\* document, the result renders the games of the day-group of the requested
\* date, one rendering per game, or is "No active games for {date}" when no
\* day-group has that date; games of other day-groups never appear.
C8_ScheduleRendersRequestedDay ==
  \A p \in Procs :
    ScheduleFetched(p) =>
      IF MatchingGroups(p) = {}
        THEN outcome[p] = Text("No active games for " \o arguments[p]["date"])
        ELSE \E i \in MatchingGroups(p) : RendersGroup(p, i)

\* the first day-group of the requested date
FirstMatching(p) == CHOOSE i \in MatchingGroups(p) : \A j \in MatchingGroups(p) : i <= j

\* C8 amended: for every valid date and every successfully fetched, non-empty
\* schedule document, the result renders the games of the (first) day-group of
\* the requested date, one rendering per game, or is "No active games for
\* {date}" when no day-group has that date; games of other day-groups never
\* appear.
C8_NonEmptyScheduleRendersRequestedDay ==
  \A p \in Procs :
    (ScheduleFetched(p) /\ DOMAIN response[p] # {}) =>
      IF MatchingGroups(p) = {}
        THEN outcome[p] = Text("No active games for " \o arguments[p]["date"])
        ELSE RendersGroup(p, FirstMatching(p))

\* C8 witness: the second day-group is the one of the requested date, it has
\* games, and the first day-group holds a game it does not hold
C8_Witness ==
  \E p \in Procs :
    /\ ScheduleFetched(p) /\ Len(GroupsOf(p)) = 2
    /\ MatchingGroups(p) = {2}
    /\ GamesOfGroup(p, 2) = <<Game2>> /\ GamesOfGroup(p, 1) = <<Game1>>
    /\ outcome[p] = Text(FormatGame(Game2))

\* C9: when the day-group of the requested date exists but its game list is
\* empty or missing, the result is the "no active games" text, the same as
\* when no day-group matches.
C9_EmptyDayIsNoActiveGames ==
  \A p \in Procs :
    (/\ ScheduleFetched(p) /\ MatchingGroups(p) # {}
     /\ GamesOfGroup(p, FirstMatching(p)) = <<>>) =>
      outcome[p] = Text("No active games for " \o arguments[p]["date"])

\* a standings invocation whose fetch returned a non-empty document
StandingsFetched(p) ==
  /\ Fetched(p) /\ name[p] = "get-nhl-standings"
  /\ response[p] # PyNone /\ DOMAIN response[p] # {}

RowsOf(p) == Get(response[p], "standings", <<>>)

PermutationsOf(n) ==
  {f \in [1..n -> 1..n] : \A i, j \in 1..n : i # j => f[i] # f[j]}

PointsOf(row) == IF Has(row, "points") THEN row["points"] ELSE 0

DiffOf(row) == IF Has(row, "goalDifferential") THEN row["goalDifferential"] ELSE 0

\* the lines of the rows taken in the order f
RECURSIVE LinesInOrder(_, _, _)
LinesInOrder(rows, f, n) ==
  IF n = 0 THEN ""
  ELSE LinesInOrder(rows, f, n - 1) \o FormatStandingsRow(rows[f[n]])

\* C10: format_standings emits the rows of the document, each once, in
\* non-increasing order of points, rows of equal points in non-increasing
\* order of goal differential, and rows equal in both in their input order.
C10_StandingsOrder ==
  \A p \in Procs :
    StandingsFetched(p) =>
      LET rows == RowsOf(p)
          n == Len(rows)
      IN  \E f \in PermutationsOf(n) :
            /\ \A i, j \in 1..n :
                 i < j =>
                   \/ PointsOf(rows[f[i]]) > PointsOf(rows[f[j]])
                   \/ /\ PointsOf(rows[f[i]]) = PointsOf(rows[f[j]])
                      /\ DiffOf(rows[f[i]]) > DiffOf(rows[f[j]])
                   \/ /\ PointsOf(rows[f[i]]) = PointsOf(rows[f[j]])
                      /\ DiffOf(rows[f[i]]) = DiffOf(rows[f[j]])
                      /\ f[i] < f[j]
            /\ outcome[p] = Text(LinesInOrder(rows, f, n))

\* C10 witness: a document of three rows out of order, two of them distinct
\* rows that tie in points and goal differential, has been formatted
C10_Witness ==
  \E p \in Procs :
    /\ StandingsFetched(p) /\ Len(RowsOf(p)) = 3
    /\ PointsOf(RowsOf(p)[1]) < PointsOf(RowsOf(p)[2])
    /\ PointsOf(RowsOf(p)[2]) = PointsOf(RowsOf(p)[3])
    /\ DiffOf(RowsOf(p)[2]) = DiffOf(RowsOf(p)[3])
    /\ RowsOf(p)[2] # RowsOf(p)[3]
    /\ outcome[p].kind = "text" /\ outcome[p].text # ""

(***************************************************************************)
(* The normalizers under the documents that exercise them: the same        *)
(* handler, called with well-formed arguments, answered with documents     *)
(* that vary in field presence, sign, order and length.                    *)
(***************************************************************************)
\* the longest standings list of a normalizer document
MaxNormRows == 2

NormNames ==
  { "get-nhl-schedule", "get-nhl-game-play-by-play", "get-nhl-roster",
    "get-nhl-standings", "get-nhl-player-stats" }

NormDate == "2024-01-15"

NormArgBags ==
  { [date |-> NormDate], [team_abbreviation |-> "TOR"],
    [player_id |-> "8478402"], [game_id |-> "2024020451"] }

\* the days around the turn of the season and of the year
NormTodays ==
  { [year |-> 2024, month |-> 9, day |-> 30],
    [year |-> 2024, month |-> 10, day |-> 1],
    [year |-> 2024, month |-> 12, day |-> 31],
    [year |-> 2025, month |-> 1, day |-> 1],
    [year |-> 1999, month |-> 11, day |-> 3] }

GoalDiffValues == {0, 3, 12, -2, -10}

\* standings rows that differ in their goal differential, one without it
SignRows ==
  {[teamCommonName |-> [default |-> "Jets"], points |-> 10, goalDifferential |-> d,
    wins |-> 5, losses |-> 1, otLosses |-> 0] : d \in GoalDiffValues}
    \cup {[teamCommonName |-> [default |-> "Jets"], points |-> 10,
           wins |-> 5, losses |-> 1, otLosses |-> 0]}

NormStandingsDocs ==
  {[standings |-> r] : r \in SeqsUpTo(SignRows, MaxNormRows)}

RosterGroups == {"forwards", "defensemen", "goalies"}

Player3 ==
  [firstName |-> [default |-> "Morgan"], lastName |-> [default |-> "Rielly"],
   sweaterNumber |-> 44]

PlayerLists == {<<>>, <<Player1>>, <<Player1, Player2>>, <<Player3, Player1>>}

\* roster documents: each group missing, empty or with players; the document
\* without any group carries another key of the endpoint
NormRosterDocs ==
  {[k \in K |-> f[k]] : K \in (SUBSET RosterGroups) \ {{}}, f \in [RosterGroups -> PlayerLists]}
    \cup {[season |-> 20242025]}

\* the dict d without the keys outside K
Restrict(d, K) == [k \in K |-> d[k]]

FullGoal == Game1.goals[1]

\* Game1 with fields removed: any set of its own fields, any set of the fields
\* of one of its nested dicts, any set of the fields of its goal
RemovalGames ==
  {Restrict(Game1, K) : K \in SUBSET DOMAIN Game1}
    \cup {[Game1 EXCEPT !.homeTeam = Restrict(@, K)] : K \in SUBSET DOMAIN Game1.homeTeam}
    \cup {[Game1 EXCEPT !.awayTeam = Restrict(@, K)] : K \in SUBSET DOMAIN Game1.awayTeam}
    \cup {[Game1 EXCEPT !.clock = Restrict(@, K)] : K \in SUBSET DOMAIN Game1.clock}
    \cup {[Game1 EXCEPT !.gameOutcome = Restrict(@, K)] : K \in SUBSET DOMAIN Game1.gameOutcome}
    \cup {[Game1 EXCEPT !.venue = EmptyDict], [Game1 EXCEPT !.homeTeam.name = EmptyDict],
           [Game1 EXCEPT !.awayTeam.name = EmptyDict]}
    \cup {[Game1 EXCEPT !.goals = <<Restrict(FullGoal, K)>>] : K \in SUBSET DOMAIN FullGoal}
    \cup {[Game1 EXCEPT !.goals = <<[FullGoal EXCEPT !.periodDescriptor = Restrict(@, K)]>>] :
             K \in SUBSET DOMAIN FullGoal.periodDescriptor}
    \cup {[Game1 EXCEPT !.goals = <<[FullGoal EXCEPT !.name = EmptyDict]>>]}

\* the longest list of games, of goals and of plays of a normalizer document
MaxList == 3

Game3 ==
  [id |-> 2024020453, gameState |-> "LIVE", venue |-> [default |-> "TD Garden"],
   goals |-> <<>>]

GamePool == {Game1, Game2, Game3}

GoalPool ==
  { FullGoal,
    [name |-> [default |-> "A. Matthews"], teamAbbrev |-> "TOR",
     awayScore |-> 1, homeScore |-> 1],
    [name |-> [default |-> "L. Draisaitl"], teamAbbrev |-> "EDM"] }

\* Game3 with a list of goals
GoalGames == {[Game3 EXCEPT !.goals = gs] : gs \in SeqsUpTo(GoalPool, MaxList)}

\* schedule documents whose one day-group is the requested day
NormScheduleDocs ==
  {[gameWeek |-> << [date |-> NormDate, games |-> <<g>>] >>] :
     g \in RemovalGames \cup GoalGames}
    \cup {[gameWeek |-> << [date |-> NormDate, games |-> gs] >>] :
             gs \in SeqsUpTo(GamePool, MaxList)}

PlayPool == {Play1, Play2, [typeDescKey |-> "hit", timeInPeriod |-> "11:30"]}

NormPlayDocs ==
  {[id |-> 2024020451, plays |-> ps] : ps \in SeqsUpTo(PlayPool, MaxList)}

FullRow ==
  [teamCommonName |-> [default |-> "Jets"], points |-> 10, goalDifferential |-> 3,
   wins |-> 5, losses |-> 1, otLosses |-> 2]

RemovalRows ==
  {Restrict(FullRow, K) : K \in SUBSET DOMAIN FullRow}
    \cup {[FullRow EXCEPT !.teamCommonName = EmptyDict]}

RemovalPlayers ==
  {Restrict(Player1, K) : K \in SUBSET DOMAIN Player1}
    \cup {[Player1 EXCEPT !.firstName = EmptyDict], [Player1 EXCEPT !.lastName = EmptyDict]}

NormPlayerDocs == PlayerDocs \cup {OrderedDict(<< <<"shootsCatches", "L">> >>)}

NormDocsFor(n) ==
  IF n = "get-nhl-standings"
    THEN NormStandingsDocs \cup {[standings |-> <<r>>] : r \in RemovalRows}
  ELSE IF n = "get-nhl-roster"
    THEN NormRosterDocs \cup {[forwards |-> <<pl>>] : pl \in RemovalPlayers}
  ELSE IF n = "get-nhl-schedule" THEN NormScheduleDocs
  ELSE IF n = "get-nhl-player-stats" THEN NormPlayerDocs
  ELSE IF n = "get-nhl-game-play-by-play" THEN NormPlayDocs
  ELSE DocsFor(n)

NormCall(p) == CallFrom(p, NormNames, NormArgBags, NormTodays)

NormResume(p) ==
  ResumeFrom(p, {[kind |-> "json", body |-> d] : d \in NormDocsFor(name[p])})

NormNext == NormCall(Main) \/ NormResume(Main) \/ Return(Main)

SpecNormalizers == Init /\ [][NormNext]_vars

\* the decimal digits of a natural number
DigitChar(k) == SubSeq("0123456789", k + 1, k + 1)

RECURSIVE Decimal(_)
Decimal(n) == IF n < 10 THEN DigitChar(n) ELSE Decimal(n \div 10) \o DigitChar(n % 10)

\* the goal-differential column as the standings text shows it
GoalDiffColumn(d) ==
  " GD: " \o (IF d >= 0 THEN "+" \o Decimal(d) ELSE "-" \o Decimal(0 - d)) \o "\n"

\* C11: in the standings text every row ends with its goal differential
\* written with an explicit sign: "+" and the digits of d when d >= 0 (so 0 is
\* "+0"), "-" and the digits of |d| when d < 0, and "+0" when the row has no
\* goal differential; no other goal-differential column appears.
C11_GoalDiffIsSigned ==
  \A p \in Procs :
    StandingsFetched(p) =>
      /\ outcome[p].kind = "text"
      /\ \A d \in GoalDiffValues :
           Occurrences(outcome[p].text, GoalDiffColumn(d))
             = Cardinality({i \in 1..Len(RowsOf(p)) : DiffOf(RowsOf(p)[i]) = d})
      /\ Occurrences(outcome[p].text, " GD: ") = Len(RowsOf(p))

\* C11 witness: a document with a row of negative differential followed by a
\* row without one has been formatted
C11_Witness ==
  \E p \in Procs :
    /\ StandingsFetched(p) /\ Len(RowsOf(p)) = 2
    /\ Has(RowsOf(p)[1], "goalDifferential") /\ RowsOf(p)[1]["goalDifferential"] = -10
    /\ ~Has(RowsOf(p)[2], "goalDifferential")
    /\ Contains(outcome[p].text, "GD: -10\n")
    /\ Contains(outcome[p].text, "GD: +0\n")

RosterFetched(p) ==
  /\ Fetched(p) /\ name[p] = "get-nhl-roster"
  /\ response[p] # PyNone /\ DOMAIN response[p] # {}

\* the position of the only occurrence of needle in haystack
PosOf(haystack, needle) ==
  CHOOSE i \in 1..(Len(haystack) - Len(needle) + 1) :
    SubSeq(haystack, i, i + Len(needle) - 1) = needle

\* text holds exactly the entry lines of the players, one line each
HoldsEntriesOf(text, players) ==
  /\ Occurrences(text, "\n") = Len(players)
  /\ \A i \in 1..Len(players) : Contains(text, FormatPlayer(players[i]))

\* C12: the roster text of every roster document, whichever of forwards,
\* defensemen and goalies is empty or missing, has the headers FORWARDS:,
\* DEFENSEMEN: and GOALIES: exactly once each and in that order, and the entry
\* lines of a group lie between its header and the next header (the end of
\* the text for goalies), one line per player.
C12_RosterHeaders ==
  \A p \in Procs :
    RosterFetched(p) =>
      LET t == outcome[p].text
          posD == PosOf(t, "\nDEFENSEMEN:\n")
          posG == PosOf(t, "\nGOALIES:\n")
      IN  /\ outcome[p].kind = "text"
          /\ Occurrences(t, "FORWARDS:\n") = 1
          /\ Occurrences(t, "DEFENSEMEN:\n") = 1
          /\ Occurrences(t, "GOALIES:\n") = 1
          /\ SubSeq(t, 1, 10) = "FORWARDS:\n"
          /\ Contains(t, "\nDEFENSEMEN:\n") /\ Contains(t, "\nGOALIES:\n")
          /\ 10 < posD /\ posD < posG
          /\ HoldsEntriesOf(SubSeq(t, 11, posD - 1),
                            Get(response[p], "forwards", <<>>))
          /\ HoldsEntriesOf(SubSeq(t, posD + 13, posG - 1),
                            Get(response[p], "defensemen", <<>>))
          /\ HoldsEntriesOf(SubSeq(t, posG + 10, Len(t)),
                            Get(response[p], "goalies", <<>>))

\* C12 witness: a roster with forwards, an empty defensemen list and no
\* goalies key has been formatted
C12_Witness ==
  \E p \in Procs :
    /\ RosterFetched(p)
    /\ Has(response[p], "forwards") /\ Len(response[p]["forwards"]) = 2
    /\ Has(response[p], "defensemen") /\ Len(response[p]["defensemen"]) = 0
    /\ ~Has(response[p], "goalies")
    /\ Contains(outcome[p].text, "\n\nDEFENSEMEN:\n\nGOALIES:\n")

\* the dict d with each key of defaults it lacks set to the value defaults gives
Fill(d, defaults) ==
  [k \in DOMAIN d \cup DOMAIN defaults |-> IF k \in DOMAIN d THEN d[k] ELSE defaults[k]]

FillTeam(team) ==
  LET top == Fill(team, [name |-> EmptyDict, logo |-> ""])
  IN  [top EXCEPT !.name = Fill(@, [default |-> "Unknown Team"])]

FillGoal(g) ==
  LET top == Fill(g, [name |-> EmptyDict, periodDescriptor |-> EmptyDict,
                      timeInPeriod |-> "N/A", teamAbbrev |-> "N/A", strength |-> "N/A"])
  IN  [top EXCEPT !.name = Fill(@, [default |-> "Unknown Player"]),
                  !.periodDescriptor = Fill(@, [periodType |-> "N/A"])]

\* the game with every missing field of string, bool, list or count type set
\* to its documented default
FillGame(game) ==
  LET top == Fill(game, [gameState |-> "N/A", venue |-> EmptyDict, homeTeam |-> EmptyDict,
                         awayTeam |-> EmptyDict, clock |-> EmptyDict,
                         gameOutcome |-> EmptyDict, goals |-> <<>>])
  IN  [top EXCEPT !.venue = Fill(@, [default |-> "Unknown Venue"]),
                  !.homeTeam = FillTeam(@),
                  !.awayTeam = FillTeam(@),
                  !.clock = Fill(@, [timeRemaining |-> "N/A", inIntermission |-> FALSE]),
                  !.gameOutcome = Fill(@, [lastPeriodType |-> "N/A", otPeriods |-> 0]),
                  !.goals = [i \in 1..Len(@) |-> FillGoal(@[i])]]

FillRow(row) ==
  LET top == Fill(row, [teamCommonName |-> EmptyDict, points |-> 0, goalDifferential |-> 0,
                        wins |-> 0, losses |-> 0, otLosses |-> 0])
  IN  [top EXCEPT !.teamCommonName = Fill(@, [default |-> ""])]

FillPlayer(player) ==
  LET top == Fill(player, [firstName |-> EmptyDict, lastName |-> EmptyDict])
  IN  [top EXCEPT !.firstName = Fill(@, [default |-> ""]),
                  !.lastName = Fill(@, [default |-> ""])]

\* the text shows "N/A" in the place of every number the game lacks
GameNumbersDefault(t, game) ==
  LET f == FillGame(game)
  IN  /\ ~Has(game, "id") => SubSeq(t, 1, 13) = "Game ID: N/A\n"
      /\ ~Has(game, "period") => Contains(t, ", Period: N/A, In Intermission: ")
      /\ ~Has(f.homeTeam, "id") =>
           Contains(t, "Home Team: " \o f.homeTeam.name.default \o " (ID: N/A, Score: ")
      /\ ~Has(f.homeTeam, "score") =>
           Contains(t, ", Score: N/A, Logo: " \o f.homeTeam.logo \o ")\nAway Team: ")
      /\ ~Has(f.awayTeam, "id") =>
           Contains(t, "Away Team: " \o f.awayTeam.name.default \o " (ID: N/A, Score: ")
      /\ ~Has(f.awayTeam, "score") =>
           Contains(t, ", Score: N/A, Logo: " \o f.awayTeam.logo \o ")\nTime Remaining: ")
      /\ \A i \in 1..Len(f.goals) :
           /\ ~Has(f.goals[i].periodDescriptor, "number") =>
                Contains(t, " in Period N/A (" \o f.goals[i].periodDescriptor.periodType \o ") at ")
           /\ ~Has(f.goals[i], "awayScore") => Contains(t, "(Score at that time: N/A-")
           /\ ~Has(f.goals[i], "homeScore") => Contains(t, "-N/A)\n")

\* a game list of the requested day has been formatted
GamesRendered(p) ==
  /\ ScheduleFetched(p) /\ outcome[p].kind = "text"
  /\ Len(GroupsOf(p)) = 1 /\ Get(GroupsOf(p)[1], "date", "") = arguments[p]["date"]

GamesRenderedOf(p) == Get(GroupsOf(p)[1], "games", <<>>)

\* format_games renders every field a game lacks as its default
GamesDefaults(p) ==
  GamesRendered(p) =>
    LET games == GamesRenderedOf(p)
    IN  /\ outcome[p].text = format_games([i \in 1..Len(games) |-> FillGame(games[i])])
        /\ Len(games) = 1 => GameNumbersDefault(outcome[p].text, games[1])
        /\ games = <<EmptyDict>> =>
             outcome[p].text =
               "Game ID: N/A\nState: N/A\nVenue: Unknown Venue\n"
                 \o "Home Team: Unknown Team (ID: N/A, Score: N/A, Logo: )\n"
                 \o "Away Team: Unknown Team (ID: N/A, Score: N/A, Logo: )\n"
                 \o "Time Remaining: N/A, Period: N/A, In Intermission: False\n"
                 \o "Game Outcome: Last Period Type: N/A, OT Periods: 0\n\n"

\* format_standings renders every field a row lacks as its default
StandingsDefaults(p) ==
  (StandingsFetched(p) /\ Len(RowsOf(p)) = 1) =>
    /\ outcome[p] = Text(format_standings([standings |-> <<FillRow(RowsOf(p)[1])>>]))
    /\ RowsOf(p)[1] = EmptyDict => outcome[p].text = ": 0pts (0-0-0) GD: +0\n"

\* format_roster renders every field a player lacks as its default
RosterDefaults(p) ==
  (RosterFetched(p) /\ DOMAIN response[p] = {"forwards"} /\ Len(response[p]["forwards"]) = 1) =>
    LET pl == response[p]["forwards"][1]
    IN  /\ outcome[p] = Text(format_roster([forwards |-> <<FillPlayer(pl)>>]))
        /\ ~Has(pl, "sweaterNumber") =>
             SubSeq(outcome[p].text, 1, 12) = "FORWARDS:\n# "
        /\ pl = EmptyDict => outcome[p].text = "FORWARDS:\n#  \n\nDEFENSEMEN:\n\nGOALIES:\n"

PlayerFetched(p) ==
  /\ Fetched(p) /\ name[p] = "get-nhl-player-stats"
  /\ response[p] # PyNone /\ Len(response[p].items) > 0

\* the fields of a player document that have a documented default
PlayerFields == {"position"}

\* the item list with item it put after its first k items
InsertAt(items, k, it) ==
  SubSeq(items, 1, k) \o <<it>> \o SubSeq(items, k + 1, Len(items))

\* format_player_stats renders every field the document lacks as its default,
\* the empty string: the text is that of the document in which the field is ""
PlayerDefaults(p) ==
  PlayerFetched(p) =>
    /\ outcome[p].kind = "text"
    /\ \A f \in PlayerFields :
         (\A i \in 1..Len(response[p].items) : response[p].items[i][1] # f) =>
           \E k \in 0..Len(response[p].items) :
             outcome[p].text =
               format_player_stats(OrderedDict(InsertAt(response[p].items, k, <<f, "">>)))

\* an invocation whose fetch returned a non-empty document to one of the four
\* normalizing tools
Normalized(p) ==
  /\ Fetched(p) /\ response[p] # PyNone
  /\ \/ name[p] \in {"get-nhl-schedule", "get-nhl-standings", "get-nhl-roster"}
          /\ DOMAIN response[p] # {}
     \/ PlayerFetched(p)

\* C13: whatever fields the fetched document lacks, format_games,
\* format_standings, format_roster and format_player_stats return a text and
\* do not raise, and the text shows each missing field as its documented
\* default ("N/A", "Unknown Team", "Unknown Venue", "Unknown Player", 0,
\* False or the empty string).
C13_RemovedFieldsRenderDefaults ==
  \A p \in Procs :
    /\ Normalized(p) => outcome[p].kind = "text"
    /\ GamesDefaults(p)
    /\ StandingsDefaults(p)
    /\ RosterDefaults(p)
    /\ PlayerDefaults(p)

\* the part of C13 that is about format_games, format_standings and
\* format_roster, and the text-without-raising part for format_player_stats
C13_ThreeNormalizersRenderDefaults ==
  \A p \in Procs :
    /\ Normalized(p) => outcome[p].kind = "text"
    /\ GamesDefaults(p)
    /\ StandingsDefaults(p)
    /\ RosterDefaults(p)

(***************************************************************************)
(* Concurrent invocations: the host starts a second handle_call_tool       *)
(* while the first is suspended at its await.                              *)
(***************************************************************************)
ConcNames == {"get-nhl-schedule", "get-nhl-standings", "get-nhl-roster"}

ConcArgBags == {EmptyDict, [date |-> "2024-01-15"], [team_abbreviation |-> "TOR"]}

ConcTodays ==
  { [year |-> 2024, month |-> 9, day |-> 30],
    [year |-> 2024, month |-> 10, day |-> 1] }

ConcDocsFor(n) ==
  IF n = "get-nhl-schedule"
    THEN {[gameWeek |-> << [date |-> "2024-01-15", games |-> <<Game2>>] >>],
          [gameWeek |-> <<>>]}
  ELSE IF n = "get-nhl-standings"
    THEN {[standings |-> <<FullRow>>], [standings |-> <<>>]}
  ELSE {[forwards |-> <<Player1>>], [goalies |-> <<Player2>>]}

ConcRawResults(n) ==
  {[kind |-> "network_error", body |-> PyNone]}
    \cup {[kind |-> "json", body |-> d] : d \in ConcDocsFor(n)}

ConcCall(p) == CallFrom(p, ConcNames, ConcArgBags, ConcTodays)

ConcResume(p) == ResumeFrom(p, ConcRawResults(name[p]))

ConcNext == \E p \in Procs : ConcCall(p) \/ ConcResume(p) \/ Return(p)

SpecConcurrent == Init /\ [][ConcNext]_vars

\* the outcome of handle_call_tool(n, a) run on its own on the day now with
\* its fetch, if it makes one, answered by data
AloneOutcome(n, a, now, data) ==
  LET b == CallToolBegin(n, a, now)
  IN  IF b.kind = "fetch" THEN CallToolResume(n, a, data) ELSE b

\* what invocation p holds
SlotOf(p) ==
  <<pc[p], name[p], arguments[p], url[p], clock[p], fetches[p], response[p], outcome[p]>>

\* every finished invocation has the outcome of its own run
OwnOutcome ==
  \A p \in Procs :
    /\ Done(p) =>
         outcome[p] = AloneOutcome(name[p], arguments[p], clock[p], response[p])
    /\ (Started(p) /\ fetches[p] >= 1) =>
         /\ fetches[p] = 1
         /\ url[p] = CallToolBegin(name[p], arguments[p], clock[p]).text

\* a step writes what one invocation holds and nothing of any other
OwnWrites ==
  \E p \in Procs :
    \A q \in Procs \ {p} :
      /\ pc'[q] = pc[q] /\ name'[q] = name[q] /\ arguments'[q] = arguments[q]
      /\ url'[q] = url[q] /\ clock'[q] = clock[q] /\ fetches'[q] = fetches[q]
      /\ response'[q] = response[q] /\ outcome'[q] = outcome[q]

\* C15: when invocations interleave at their awaits, each finished invocation
\* has the outcome (text or raised error) that handle_call_tool gives when run
\* alone with the same arguments and the same fetch response, and every step
\* of one invocation leaves what every other invocation holds unchanged.
C15_ConcurrentIsolation == []OwnOutcome /\ [][OwnWrites]_vars

\* C15 witness: one invocation has finished with the text of its fetched
\* document while another, started with another tool, is still suspended at
\* its await
C15_Witness ==
  /\ pc["p1"] = "done" /\ fetches["p1"] = 1 /\ name["p1"] = "get-nhl-roster"
  /\ response["p1"] # PyNone /\ outcome["p1"].kind = "text"
  /\ pc["p2"] = "await" /\ fetches["p2"] = 1 /\ name["p2"] = "get-nhl-schedule"

\* an invocation of the roster tool that has made its fetch
RosterStarted(p) ==
  Started(p) /\ name[p] = "get-nhl-roster" /\ fetches[p] >= 1

\* the year the season of the day today started in
SeasonStartYear(today) ==
  IF today.month \in {10, 11, 12} THEN today.year ELSE today.year - 1

\* C16: the URL the roster tool fetches ends in an 8-digit season id: the
\* four digits of the start year, then the four digits of the start year
\* plus one, where the start year is the year of the current date when its
\* month is October or later and the year before otherwise.
C16_SeasonId ==
  \A p \in Procs :
    RosterStarted(p) =>
      LET prefix == NHL_API_BASE \o "/roster/" \o arguments[p]["team_abbreviation"] \o "/"
          n == Len(prefix)
      IN  /\ Len(url[p]) = n + 8
          /\ SubSeq(url[p], 1, n) = prefix
          /\ \A i \in (n + 1)..(n + 8) : Ch(url[p], i) \in Digit
          /\ ParseInt(SubSeq(url[p], n + 1, n + 4)) = SeasonStartYear(clock[p])
          /\ ParseInt(SubSeq(url[p], n + 5, n + 8)) = SeasonStartYear(clock[p]) + 1

\* C16 witness: a roster fetch made on 30 September 2024 goes to the season
\* 20232024
C16_Witness ==
  \E p \in Procs :
    /\ RosterStarted(p)
    /\ clock[p] = [year |-> 2024, month |-> 9, day |-> 30]
    /\ url[p] = "https://api-web.nhle.com/v1/roster/TOR/20232024"

\* the positions of text from position from on at which marker stands
PositionsFrom(text, marker, from) ==
  {k \in from..(Len(text) - Len(marker) + 1) :
     SubSeq(text, k, k + Len(marker) - 1) = marker}

Least(S) == CHOOSE k \in S : \A j \in S : k <= j

\* the markers i, i + 1, ... stand in text in this order, one after the end of
\* the other, from position from on
RECURSIVE InOrderFrom(_, _, _, _)
InOrderFrom(text, markers, i, from) ==
  IF i > Len(markers) THEN TRUE
  ELSE LET at == PositionsFrom(text, markers[i], from)
       IN  /\ at # {}
           /\ InOrderFrom(text, markers, i + 1, Least(at) + Len(markers[i]))

GameMarker(game) ==
  "Game ID: " \o (IF Has(game, "id") THEN Decimal(game["id"]) ELSE "N/A") \o "\n"

GoalMarker(g) ==
  " - " \o Get(Get(g, "name", EmptyDict), "default", "Unknown Player")
    \o " scored for " \o Get(g, "teamAbbrev", "N/A") \o " in Period "

PlayMarker(i, play) ==
  "Play " \o Decimal(i) \o ": " \o Get(play, "typeDescKey", "Unknown") \o " at "

PlaysFetched(p) ==
  Fetched(p) /\ name[p] = "get-nhl-game-play-by-play" /\ response[p] # PyNone

GamesOutOfIdOrderRendered ==
  \E p \in Procs :
    /\ GamesRendered(p)
    /\ GamesRenderedOf(p) = <<Game3, Game1, Game2>>
    /\ SubSeq(outcome[p].text, 1, 20) = "Game ID: 2024020453\n"

RECURSIVE BlocksAlone(_, _)
BlocksAlone(games, n) ==
  IF n = 0 THEN "" ELSE BlocksAlone(games, n - 1) \o format_games(<<games[n]>>)

RECURSIVE SumOf(_, _)
SumOf(f, n) == IF n = 0 THEN 0 ELSE SumOf(f, n - 1) + f[n]

\* C18: the text of a list of games is the text of any head of the list
\* followed by the text of the rest, so each game's block is what the game
\* renders to alone: the text has as many goal lines as the games have goals
\* and as many "Goals:" sections as there are games with goals.
C18_GamesRenderIndependently ==
  \A p \in Procs :
    GamesRendered(p) =>
      LET games == GamesRenderedOf(p)
          n == Len(games)
          t == outcome[p].text
      IN  /\ \A k \in 0..n :
               t = format_games(SubSeq(games, 1, k)) \o format_games(SubSeq(games, k + 1, n))
          /\ t = BlocksAlone(games, n)
          /\ Occurrences(t, " scored for ")
               = SumOf([i \in 1..n |-> Len(Get(games[i], "goals", <<>>))], n)
          /\ Occurrences(t, "Goals:\n")
               = Cardinality({i \in 1..n : Len(Get(games[i], "goals", <<>>)) > 0})

\* C18 witness: a game with goals followed by a game without a goals key and a
\* game with an empty goals list has been rendered, with one "Goals:" section
C18_Witness ==
  \E p \in Procs :
    /\ GamesRendered(p)
    /\ GamesRenderedOf(p) = <<Game1, Game2, Game3>>
    /\ Occurrences(outcome[p].text, "Goals:\n") = 1
    /\ Occurrences(outcome[p].text, " scored for ") = 2

\* a schedule-now invocation whose fetch returned a non-empty document
NowFetched(p) ==
  /\ Fetched(p) /\ name[p] = "get-nhl-schedule-now"
  /\ response[p] # PyNone /\ DOMAIN response[p] # {}

\* C19: after a successful fetch schedule-now never raises and always ends
\* in one of its "no games" texts.
C19_ScheduleNowFallsThrough ==
  \A p \in Procs :
    NowFetched(p) =>
      /\ outcome[p].kind = "text"
      /\ outcome[p].text \in {"No active games", "No active games right now"}

\* what schedule-now does after a successful fetch: a document whose gameWeek
\* is missing or empty gives the text "No active games", and a document with
\* day-groups makes the invocation raise UnboundLocalError at the comparison
\* with the unbound local date; no day-group is rendered
ScheduleNowRaisesOnDayGroups ==
  \A p \in Procs :
    NowFetched(p) =>
      IF Len(GroupsOf(p)) = 0
        THEN outcome[p] = Text("No active games")
        ELSE outcome[p].kind = "raise" /\ outcome[p].exc = "UnboundLocalError"

\* the tools that check the fetched document before they format it
CheckingTools ==
  {"get-nhl-schedule", "get-nhl-roster", "get-nhl-standings", "get-nhl-player-stats"}

\* a fetched JSON value that is an empty object or an empty list
IsEmptyJson(d) ==
  /\ d # PyNone
  /\ IF "items" \in DOMAIN d THEN Len(d.items) = 0 ELSE DOMAIN d = {}

\* C20: for schedule, roster, standings and player stats, a fetch answered
\* with an empty JSON value ends as a failed fetch does, in the same "Failed to
\* retrieve ... data" text; so a text that is not that one comes from a
\* document that is not empty.
C20_EmptyJsonIsFailedFetch ==
  \A p \in Procs :
    (Fetched(p) /\ name[p] \in CheckingTools) =>
      /\ IsEmptyJson(response[p]) =>
           /\ outcome[p].kind = "text" /\ IsFailedToRetrieve(outcome[p].text)
           /\ outcome[p] = CallToolResume(name[p], arguments[p], PyNone)
      /\ (outcome[p].kind = "text" /\ ~IsFailedToRetrieve(outcome[p].text)) =>
           response[p] # PyNone /\ ~IsEmptyJson(response[p])

\* C20 witness: the roster tool fetched the empty object and answered that it
\* failed to retrieve the roster
C20_Witness ==
  \E p \in Procs :
    /\ Fetched(p) /\ name[p] = "get-nhl-roster"
    /\ response[p] = EmptyDict
    /\ outcome[p] = Text("Failed to retrieve roster data")

(***************************************************************************)
(* The two servers side by side: slot p1 runs handle_call_tool of the nhl  *)
(* server; when it has finished, slot p2 runs handle_call_tool of the      *)
(* sports server with the same name and arguments, on the same day, its    *)
(* fetch answered as the first one was.                                    *)
(***************************************************************************)
\* the tool names for which both servers have a branch
HandledByBoth ==
  { "get-nhl-schedule", "get-nhl-roster", "get-nhl-schedule-now",
    "get-nhl-standings", "get-nhl-player-stats" }

Nhl == "p1"

Sports == "p2"

SmallDocsFor(n) ==
  IF n \in {"get-nhl-schedule", "get-nhl-schedule-now"}
    THEN {EmptyDict, [gameWeek |-> <<>>],
          [gameWeek |-> << [date |-> "2024-01-15", games |-> <<Game2>>] >>]}
  ELSE IF n = "get-nhl-standings" THEN {EmptyDict, [standings |-> <<FullRow>>]}
  ELSE IF n = "get-nhl-roster" THEN {EmptyDict, [forwards |-> <<Player1>>]}
  ELSE DocsFor(n)

\* the well-formed argument bag of a tool
OwnArgBag(n) ==
  IF n = "get-nhl-schedule" THEN [date |-> NormDate]
  ELSE IF n = "get-nhl-roster" THEN [team_abbreviation |-> "TOR"]
  ELSE IF n = "get-nhl-player-stats" THEN [player_id |-> "8478402"]
  ELSE EmptyDict

\* the answers to a call: every document of the endpoint when a tool that
\* formats its document is called with its well-formed bag on the first of
\* the days, a few otherwise
BothDocsFor(n, a, today) ==
  IF /\ n \in HandledByBoth \ {"get-nhl-schedule-now"}
     /\ a = OwnArgBag(n)
     /\ today \in {NoDate, [year |-> 2024, month |-> 9, day |-> 30]}
    THEN DocsFor(n) \cup NormDocsFor(n)
  ELSE SmallDocsFor(n)

BothRawResults(n, a, today) ==
  {[kind |-> k, body |-> PyNone] : k \in {"network_error", "http_error", "not_json"}}
    \cup {[kind |-> "json", body |-> d] : d \in BothDocsFor(n, a, today)}

NhlCall == CallFrom(Nhl, Names, ArgBags, ConcTodays)

NhlResume == ResumeFrom(Nhl, BothRawResults(name[Nhl], arguments[Nhl], clock[Nhl]))

\* the sports handler is called as the nhl handler was
SportsCall ==
  /\ pc[Nhl] = "done" /\ pc[Sports] = "idle"
  /\ \E now \in ConcTodays :
       /\ clock[Nhl] # NoDate => now = clock[Nhl]
       /\ LET b == sports_CallToolBegin(name[Nhl], arguments[Nhl], now)
          IN  /\ name' = [name EXCEPT ![Sports] = name[Nhl]]
              /\ arguments' = [arguments EXCEPT ![Sports] = arguments[Nhl]]
              /\ IF b.kind = "fetch"
                   THEN /\ pc' = [pc EXCEPT ![Sports] = "await"]
                        /\ url' = [url EXCEPT ![Sports] = b.text]
                        /\ clock' = [clock EXCEPT ![Sports] = b.clock]
                        /\ fetches' = [fetches EXCEPT ![Sports] = @ + sports_RequestsPerFetch]
                        /\ outcome' = outcome
                   ELSE /\ pc' = [pc EXCEPT ![Sports] = "done"]
                        /\ outcome' = [outcome EXCEPT ![Sports] = b]
                        /\ UNCHANGED <<url, clock, fetches>>
  /\ UNCHANGED response

\* the fetch of the sports handler is answered as the fetch of the nhl handler
\* was, if that one made a fetch
SportsResume ==
  /\ pc[Sports] = "await"
  /\ \E raw \in BothRawResults(name[Sports], arguments[Sports], clock[Sports]) :
       /\ fetches[Nhl] >= 1 => make_nhl_request(raw) = response[Nhl]
       /\ LET data == sports_make_nhl_request(raw)
          IN  /\ response' = [response EXCEPT ![Sports] = data]
              /\ outcome' = [outcome EXCEPT ![Sports] =
                               sports_CallToolResume(name[Sports], arguments[Sports], data)]
  /\ pc' = [pc EXCEPT ![Sports] = "done"]
  /\ UNCHANGED <<name, arguments, url, clock, fetches>>

\* the host has both results; both slots are free again
BothReturn ==
  /\ pc[Nhl] = "done" /\ pc[Sports] = "done"
  /\ pc' = [p \in Procs |-> "idle"]
  /\ name' = [p \in Procs |-> ""]
  /\ arguments' = [p \in Procs |-> PyNone]
  /\ url' = [p \in Procs |-> ""]
  /\ clock' = [p \in Procs |-> NoDate]
  /\ fetches' = [p \in Procs |-> 0]
  /\ response' = [p \in Procs |-> PyNone]
  /\ outcome' = [p \in Procs |-> NoOutcome]

BothNext == NhlCall \/ NhlResume \/ SportsCall \/ SportsResume \/ BothReturn

SpecBoth == Init /\ [][BothNext]_vars

\* the formatters of the two servers give the same text for the document the
\* nhl handler fetched
FormattersAgree ==
  (Fetched(Nhl) /\ response[Nhl] # PyNone) =>
    /\ name[Nhl] \in {"get-nhl-schedule", "get-nhl-schedule-now"} =>
         \A i \in 1..Len(Get(response[Nhl], "gameWeek", <<>>)) :
           LET games == Get(response[Nhl]["gameWeek"][i], "games", <<>>)
           IN  sports_format_games(games) = format_games(games)
    /\ name[Nhl] = "get-nhl-standings" =>
         sports_format_standings(response[Nhl]) = format_standings(response[Nhl])
    /\ name[Nhl] = "get-nhl-roster" =>
         sports_format_roster(response[Nhl]) = format_roster(response[Nhl])

\* C21: for a tool name that both servers handle, handle_call_tool of the
\* sports server, called with the arguments and answered with the fetch
\* response that handle_call_tool of the nhl server had, makes as many fetches,
\* to the same URL, and ends in the same text or the same raised error; and
\* format_games, format_standings and format_roster of the two servers give
\* the same text for every fetched document.
C21_CopiesAgree ==
  name[Nhl] \in HandledByBoth =>
    /\ Started(Sports) =>
         /\ fetches[Sports] = fetches[Nhl]
         /\ url[Sports] = url[Nhl]
         /\ clock[Sports] = clock[Nhl]
    /\ Done(Sports) =>
         /\ response[Sports] = response[Nhl]
         /\ outcome[Sports] = outcome[Nhl]
    /\ FormattersAgree

\* C21 witness: both servers have formatted the same standings document of
\* two rows, the second with more points than the first
C21_Witness ==
  /\ Done(Nhl) /\ Done(Sports) /\ name[Sports] = "get-nhl-standings"
  /\ fetches[Sports] = 1 /\ response[Sports] # PyNone
  /\ Len(Get(response[Sports], "standings", <<>>)) = 2
  /\ PointsOf(response[Sports]["standings"][1]) < PointsOf(response[Sports]["standings"][2])
  /\ outcome[Sports].kind = "text" /\ outcome[Sports].text # ""
  /\ outcome[Nhl] = outcome[Sports]
====
